---------------------------- MODULE Spec2Model ----------------------------
(***************************************************************************)
(* Model of the ar-drivers-rs device sessions:                             *)
(*   src/src/nreal.rs      NrealLight ("text" family, rusb transport,      *)
(*                         background OV580 thread, heartbeat)             *)
(*   src/src/nreal_air.rs  NrealAir ("binary"/HID family, synchronous)     *)
(*                                                                         *)
(* Every blocking transfer of a handler is one step of the model, so that  *)
(* the background thread and the clock interleave with the session where   *)
(* they can in the program.  A handler's steps are told apart by pc.       *)
(*                                                                         *)
(* The devices are the environment.  What they send is recorded beside the *)
(* program's state (the variables under "history"), as the device means    *)
(* it: the properties compare what the program did with that record.       *)
(***************************************************************************)
EXTENDS Integers, Sequences, FiniteSets, TLC

VARIABLES
    family,          \* "light" (NrealLight) or "air" (NrealAir): the driver in use
    pc,              \* position of the caller's thread inside the session's code
    command,         \* the `command` argument of the run_command call, None in other calls
    attempt,         \* run_command: iterations of `for _ in 0..64` completed
    junk,            \* NrealLight::read_packet: iterations of `for _ in 0..8` completed
    pending,         \* pending_packets: VecDeque<Packet> / VecDeque<McuPacket>
    ret,             \* what the last finished call returned
    last_heartbeat,  \* NrealLight.last_heartbeat
    slot,            \* last_acc_gyro: Mutex<Option<(SensorData3D, SensorData3D)>>
    strong,          \* Arc::strong_count(last_acc_gyro)
    tpc,             \* position of the OV580 receiving thread
    clock,           \* std::time::Instant::now(), in milliseconds
    \* ---- the devices ----
    arrived,         \* well-formed frames the control channel has delivered so far
    phase,           \* offset of the device's unsolicited traffic cycle
    junkCap,         \* malformed buffers the control channel delivers in a row, at most
    reports,         \* motion reports the sensor channel has delivered so far
    framesLeft,      \* well-formed frames the control channel still delivers
    \* ---- history (read by the properties only) ----
    queue0,          \* pending at the start of the current call
    got,             \* well-formed frames the device delivered in this call, as sent
    junkRun,         \* malformed buffers delivered in a row, up to now, in this call
    junkBefore,      \* malformed buffers in a row before the last frame of this call
    timeouts,        \* transfers of run_command that timed out in this call
    didRead,         \* whether this call has read the control channel
    writes,          \* writes to the control channel in this call
    wfail,           \* whether a write of this call failed
    lastTaken,       \* arrival stamp of the last frame a read_event call consumed
    motions,         \* motion events read_event has returned so far
    tcause,          \* why the receiving thread left its loop
    wasDisconnected, \* whether read_event has returned Error::Disconnected
    lastWrite,       \* how the last write of this call ended
    beatAt,          \* the sampled time of the last heartbeat frame written, -1 if none
    lastRead,        \* how the last transfer of this call on the control channel ended
    calledDue,       \* whether the current call began more than 250 ms after last_heartbeat
    lastMotion,      \* the report of the last motion event NrealLight::read_event returned
    imuReads,        \* transfers of this call on the HID family's sensor channel
    lastSensor,      \* what the last of them delivered
    \* ---- the codecs, applied to one packet ----
    cin,             \* the packet handed to serialize
    cwire,           \* what serialize returned
    cout,            \* what deserialize returned for those bytes
    \* ---- the display mode of the HID family ----
    panel,           \* the mode byte the glasses' display holds
    asked,           \* the mode of the last set_display_mode the glasses stored, None if none
    dret,            \* what the last get_display_mode or set_display_mode returned
    \* ---- the normalization of one sensor report ----
    report,          \* the raw report handed to the driver, with the driver's biases
    sample,          \* the samples the driver made of it
    \* ---- the creation of a session ----
    npc,             \* position inside new()
    nret,            \* what new() returned
    steps,           \* the steps of new() that have succeeded, in order
    sensorLog,       \* the commands the sensor device has got, with its stream then
    stream,          \* whether the sensor device streams its reports
    blob,            \* the configuration the sensor device holds
    config,          \* read_config's buffer: the configuration read so far
    announced,       \* the length the HID family's sensor device answers 0x14 with
    biases           \* the biases of the sensor device's driver: "zero" or "set"

vars == <<family, pc, command, attempt, junk, pending, ret, last_heartbeat, slot,
          strong, tpc, clock, arrived, phase, junkCap, reports, framesLeft,
          queue0, got, junkRun, junkBefore, timeouts, didRead, writes, wfail, lastTaken,
          motions, tcause, wasDisconnected, lastWrite,
          beatAt, lastRead, calledDue, lastMotion, imuReads, lastSensor, cin, cwire, cout,
          panel, asked, dret, report, sample, npc,
          nret, steps, sensorLog, stream, blob, config, announced, biases>>

\* the state of the codec runs
codecVars == <<cin, cwire, cout>>

\* the state of the display-mode calls
displayVars == <<panel, asked, dret>>

\* the state of the normalization runs
sampleVars == <<report, sample>>

\* the state of a session and of its devices
sessionVars ==
    <<family, pc, command, attempt, junk, pending, ret, last_heartbeat, slot,
      strong, tpc, clock, arrived, phase, junkCap, reports, framesLeft,
      queue0, got, junkRun, junkBefore, timeouts, didRead, writes, wfail, lastTaken,
      motions, tcause, wasDisconnected, lastWrite, beatAt, lastRead, calledDue, lastMotion, imuReads,
      lastSensor>>

\* the record of a call's transfers on the HID family's sensor channel
imuVars == <<imuReads, lastSensor>>

\* the state of a session's creation
creationVars == <<npc, nret, steps, sensorLog, stream, blob, config, announced, biases>>

\* the two drivers: NrealLight and NrealAir
Families == {"light", "air"}

None == [kind |-> "none"]

Some(v) == [kind |-> "some", val |-> v]

Aborted == [kind |-> "abort"]

Err(e) == [kind |-> "err", err |-> e]

Event(name, arg) == [kind |-> "event", ev |-> name, arg |-> arg]

-----------------------------------------------------------------------------
(* Program constants *)

\* the loop bound off by one: `0..=64`
CommandAttemptsOff == 64 + 1

\* `for _ in 0..64` of run_command
COMMAND_ATTEMPTS == 64
\* the loop bound off by one: `0..7`
JunkAttemptsOff == 8 - 1

\* `for _ in 0..8` of NrealLight::read_packet
JUNK_ATTEMPTS == 8
\* `[0u8; 0x40]`
BUF_LEN == 64
\* `Duration::from_millis(250)` of read_event
HEARTBEAT_MS == 250
\* Packet::deserialize: start byte, end byte, field separator
STX == 2
ETX == 3
COLON == 58
\* McuPacket: head tag, header overhead in `length`, payload capacity
MCU_HEAD == 253
MCU_OVERHEAD == 17
MCU_DATA_LEN == 42
\* read_mcu_packet: the key and the error-report command ids (0x6c05, 0x6c09)
MCU_KEY_ID == 27653
MCU_ERROR_ID == 27657

-----------------------------------------------------------------------------
(* Bounds of the model *)

\* frames of the command scenario (SpecCmd): one more than run_command can
\* read, so that a 65th frame is there to be read
CmdFrames == 65
\* malformed buffers in a row in the command scenario: one more than
\* read_packet can read
CmdJunk == 9
\* the points of the traffic cycle the command scenario starts from: 0..MaxPhase
MaxPhase == 1
\* the polling scenario (Spec): frames the control channel delivers, malformed
\* buffers in a row, reports the sensor channel delivers, the last clock value
MaxFrames == 2
MaxJunk == 1
MaxReports == 2
MaxClock == 251

\* the heartbeat scenario runs for three heartbeat periods
BeatClock == 753

\* and its control channel delivers malformed buffers enough to exhaust
\* read_packet
BeatJunk == 8

\* the classification scenario: the device sends this many frames
ClassFrames == 2

\* the codec runs: payloads of every length up to CodecShort over CodecBytes,
\* and payloads of every length from CodecLongFrom to CodecLong
CodecShort == 2
CodecLongFrom == 40
CodecLong == 58

\* the creation scenario: the control channel delivers this many frames, and
\* the sensor device its configuration in chunks of this many bytes
NewFrames == 3
ChunkLen == 32

\* the HID family's sensor channel delivers this many reports to one call
MaxImuReports == 2

\* the HID polling scenario: the MCU sends this many frames
AirFrames == 2

\* the HID family's sensor device, its configuration sent, answers this many
\* 0x15 commands more, with nothing
MaxEmptyChunks == 2

\* unrelated frames one run_command reads before its reply, at most, in the
\* display scenario
MaxSkipped == 1
\* well-formed frames the control channel delivers in the display scenario
DisplayFrames == 4

-----------------------------------------------------------------------------
(* Byte sequences *)

Zeros(n) == [i \in 1..n |-> 0]

Pad(s, n) == IF Len(s) >= n THEN SubSeq(s, 1, n) ELSE s \o Zeros(n - Len(s))

\* index of the first element equal to b, 0 when there is none
RECURSIVE PositionFrom(_, _, _)
PositionFrom(s, b, i) ==
    IF i > Len(s) THEN 0
    ELSE IF s[i] = b THEN i
    ELSE PositionFrom(s, b, i + 1)

Position(s, b) == PositionFrom(s, b, 1)

\* slice::split: the fields between separators (an empty slice has one empty field)
RECURSIVE Split(_, _)
Split(s, sep) ==
    LET i == Position(s, sep)
    IN  IF i = 0 THEN <<s>>
        ELSE <<SubSeq(s, 1, i - 1)>> \o Split(SubSeq(s, i + 1, Len(s)), sep)

Last(s) == s[Len(s)]

Front(s) == SubSeq(s, 1, Len(s) - 1)

-----------------------------------------------------------------------------
(* Frame codecs, as far as the sessions' control flow reads them *)

\* Packet::deserialize (text family): None, or Some(Packet)
LightDeserialize(data) ==
    IF data[1] # STX THEN None
    ELSE LET end == Position(data, ETX)
         IN  IF end = 0 THEN None
             ELSE LET parts == Split(SubSeq(data, 2, end - 1), COLON)
                  IN  IF Len(parts) < 4 THEN None
                      ELSE IF Len(parts[2]) = 0 \/ Len(parts[3]) = 0 THEN None
                      ELSE Some([category |-> parts[2][1],
                                 cmd_id   |-> parts[3][1],
                                 data     |-> parts[4]])

\* Packet::serialize returns Some only if `write!(writer, "{crc:>8x}")` can
\* write its 8 bytes after the 6 header bytes, the payload and ":0:"
LightSerializeFits(p) == 6 + Len(p.data) + 3 + 8 <= BUF_LEN

\* little-endian u16 at 0-based offset off of a raw buffer
U16At(data, off) == data[off + 1] + 256 * data[off + 2]

\* McuPacket::deserialize: None on a wrong head tag; the slice
\* `raw_packet.data[0..length - 17]` aborts when length is outside 17..59
McuDeserialize(data) ==
    IF data[1] # MCU_HEAD THEN None
    ELSE LET length == U16At(data, 5)
         IN  IF length < MCU_OVERHEAD \/ length - MCU_OVERHEAD > MCU_DATA_LEN
             THEN Aborted
             ELSE Some([cmd_id |-> U16At(data, 15),
                        data   |-> SubSeq(data, 23, 22 + length - MCU_OVERHEAD)])

\* McuPacket::serialize aborts in copy_from_slice when the payload exceeds 42 bytes
McuSerializeFits(p) == Len(p.data) <= MCU_DATA_LEN

-----------------------------------------------------------------------------
(* Frame codecs: serialize, and the checksums it writes *)

Min(a, b) == IF a < b THEN a ELSE b

\* a ^ b on two bytes
RECURSIVE BitXor(_, _)
BitXor(a, b) ==
    IF a = 0 THEN b
    ELSE IF b = 0 THEN a
    ELSE ((a + b) % 2) + 2 * BitXor(a \div 2, b \div 2)

\* a u32 is held as its four bytes, the least significant first
Xor32(x, y) ==
    <<BitXor(x[1], y[1]), BitXor(x[2], y[2]), BitXor(x[3], y[3]), BitXor(x[4], y[4])>>

\* r >> 8
Shr8(r) == <<r[2], r[3], r[4], 0>>

ALL_ONES == <<255, 255, 255, 255>>

CRCTABLE ==
    << <<0, 0, 0, 0>>, <<150, 48, 7, 119>>, <<44, 97, 14, 238>>, <<186, 81, 9, 153>>,
       <<25, 196, 109, 7>>, <<143, 244, 106, 112>>, <<53, 165, 99, 233>>, <<163, 149, 100, 158>>,
       <<50, 136, 219, 14>>, <<164, 184, 220, 121>>, <<30, 233, 213, 224>>, <<136, 217, 210, 151>>,
       <<43, 76, 182, 9>>, <<189, 124, 177, 126>>, <<7, 45, 184, 231>>, <<145, 29, 191, 144>>,
       <<100, 16, 183, 29>>, <<242, 32, 176, 106>>, <<72, 113, 185, 243>>, <<222, 65, 190, 132>>,
       <<125, 212, 218, 26>>, <<235, 228, 221, 109>>, <<81, 181, 212, 244>>, <<199, 133, 211, 131>>,
       <<86, 152, 108, 19>>, <<192, 168, 107, 100>>, <<122, 249, 98, 253>>, <<236, 201, 101, 138>>,
       <<79, 92, 1, 20>>, <<217, 108, 6, 99>>, <<99, 61, 15, 250>>, <<245, 13, 8, 141>>,
       <<200, 32, 110, 59>>, <<94, 16, 105, 76>>, <<228, 65, 96, 213>>, <<114, 113, 103, 162>>,
       <<209, 228, 3, 60>>, <<71, 212, 4, 75>>, <<253, 133, 13, 210>>, <<107, 181, 10, 165>>,
       <<250, 168, 181, 53>>, <<108, 152, 178, 66>>, <<214, 201, 187, 219>>, <<64, 249, 188, 172>>,
       <<227, 108, 216, 50>>, <<117, 92, 223, 69>>, <<207, 13, 214, 220>>, <<89, 61, 209, 171>>,
       <<172, 48, 217, 38>>, <<58, 0, 222, 81>>, <<128, 81, 215, 200>>, <<22, 97, 208, 191>>,
       <<181, 244, 180, 33>>, <<35, 196, 179, 86>>, <<153, 149, 186, 207>>, <<15, 165, 189, 184>>,
       <<158, 184, 2, 40>>, <<8, 136, 5, 95>>, <<178, 217, 12, 198>>, <<36, 233, 11, 177>>,
       <<135, 124, 111, 47>>, <<17, 76, 104, 88>>, <<171, 29, 97, 193>>, <<61, 45, 102, 182>>,
       <<144, 65, 220, 118>>, <<6, 113, 219, 1>>, <<188, 32, 210, 152>>, <<42, 16, 213, 239>>,
       <<137, 133, 177, 113>>, <<31, 181, 182, 6>>, <<165, 228, 191, 159>>, <<51, 212, 184, 232>>,
       <<162, 201, 7, 120>>, <<52, 249, 0, 15>>, <<142, 168, 9, 150>>, <<24, 152, 14, 225>>,
       <<187, 13, 106, 127>>, <<45, 61, 109, 8>>, <<151, 108, 100, 145>>, <<1, 92, 99, 230>>,
       <<244, 81, 107, 107>>, <<98, 97, 108, 28>>, <<216, 48, 101, 133>>, <<78, 0, 98, 242>>,
       <<237, 149, 6, 108>>, <<123, 165, 1, 27>>, <<193, 244, 8, 130>>, <<87, 196, 15, 245>>,
       <<198, 217, 176, 101>>, <<80, 233, 183, 18>>, <<234, 184, 190, 139>>, <<124, 136, 185, 252>>,
       <<223, 29, 221, 98>>, <<73, 45, 218, 21>>, <<243, 124, 211, 140>>, <<101, 76, 212, 251>>,
       <<88, 97, 178, 77>>, <<206, 81, 181, 58>>, <<116, 0, 188, 163>>, <<226, 48, 187, 212>>,
       <<65, 165, 223, 74>>, <<215, 149, 216, 61>>, <<109, 196, 209, 164>>, <<251, 244, 214, 211>>,
       <<106, 233, 105, 67>>, <<252, 217, 110, 52>>, <<70, 136, 103, 173>>, <<208, 184, 96, 218>>,
       <<115, 45, 4, 68>>, <<229, 29, 3, 51>>, <<95, 76, 10, 170>>, <<201, 124, 13, 221>>,
       <<60, 113, 5, 80>>, <<170, 65, 2, 39>>, <<16, 16, 11, 190>>, <<134, 32, 12, 201>>,
       <<37, 181, 104, 87>>, <<179, 133, 111, 32>>, <<9, 212, 102, 185>>, <<159, 228, 97, 206>>,
       <<14, 249, 222, 94>>, <<152, 201, 217, 41>>, <<34, 152, 208, 176>>, <<180, 168, 215, 199>>,
       <<23, 61, 179, 89>>, <<129, 13, 180, 46>>, <<59, 92, 189, 183>>, <<173, 108, 186, 192>>,
       <<32, 131, 184, 237>>, <<182, 179, 191, 154>>, <<12, 226, 182, 3>>, <<154, 210, 177, 116>>,
       <<57, 71, 213, 234>>, <<175, 119, 210, 157>>, <<21, 38, 219, 4>>, <<131, 22, 220, 115>>,
       <<18, 11, 99, 227>>, <<132, 59, 100, 148>>, <<62, 106, 109, 13>>, <<168, 90, 106, 122>>,
       <<11, 207, 14, 228>>, <<157, 255, 9, 147>>, <<39, 174, 0, 10>>, <<177, 158, 7, 125>>,
       <<68, 147, 15, 240>>, <<210, 163, 8, 135>>, <<104, 242, 1, 30>>, <<254, 194, 6, 105>>,
       <<93, 87, 98, 247>>, <<203, 103, 101, 128>>, <<113, 54, 108, 25>>, <<231, 6, 107, 110>>,
       <<118, 27, 212, 254>>, <<224, 43, 211, 137>>, <<90, 122, 218, 16>>, <<204, 74, 221, 103>>,
       <<111, 223, 185, 249>>, <<249, 239, 190, 142>>, <<67, 190, 183, 23>>, <<213, 142, 176, 96>>,
       <<232, 163, 214, 214>>, <<126, 147, 209, 161>>, <<196, 194, 216, 56>>, <<82, 242, 223, 79>>,
       <<241, 103, 187, 209>>, <<103, 87, 188, 166>>, <<221, 6, 181, 63>>, <<75, 54, 178, 72>>,
       <<218, 43, 13, 216>>, <<76, 27, 10, 175>>, <<246, 74, 3, 54>>, <<96, 122, 4, 65>>,
       <<195, 239, 96, 223>>, <<85, 223, 103, 168>>, <<239, 142, 110, 49>>, <<121, 190, 105, 70>>,
       <<140, 179, 97, 203>>, <<26, 131, 102, 188>>, <<160, 210, 111, 37>>, <<54, 226, 104, 82>>,
       <<149, 119, 12, 204>>, <<3, 71, 11, 187>>, <<185, 22, 2, 34>>, <<47, 38, 5, 85>>,
       <<190, 59, 186, 197>>, <<40, 11, 189, 178>>, <<146, 90, 180, 43>>, <<4, 106, 179, 92>>,
       <<167, 255, 215, 194>>, <<49, 207, 208, 181>>, <<139, 158, 217, 44>>, <<29, 174, 222, 91>>,
       <<176, 194, 100, 155>>, <<38, 242, 99, 236>>, <<156, 163, 106, 117>>, <<10, 147, 109, 2>>,
       <<169, 6, 9, 156>>, <<63, 54, 14, 235>>, <<133, 103, 7, 114>>, <<19, 87, 0, 5>>,
       <<130, 74, 191, 149>>, <<20, 122, 184, 226>>, <<174, 43, 177, 123>>, <<56, 27, 182, 12>>,
       <<155, 142, 210, 146>>, <<13, 190, 213, 229>>, <<183, 239, 220, 124>>, <<33, 223, 219, 11>>,
       <<212, 210, 211, 134>>, <<66, 226, 212, 241>>, <<248, 179, 221, 104>>, <<110, 131, 218, 31>>,
       <<205, 22, 190, 129>>, <<91, 38, 185, 246>>, <<225, 119, 176, 111>>, <<119, 71, 183, 24>>,
       <<230, 90, 8, 136>>, <<112, 106, 15, 255>>, <<202, 59, 6, 102>>, <<92, 11, 1, 17>>,
       <<255, 158, 101, 143>>, <<105, 174, 98, 248>>, <<211, 255, 107, 97>>, <<69, 207, 108, 22>>,
       <<120, 226, 10, 160>>, <<238, 210, 13, 215>>, <<84, 131, 4, 78>>, <<194, 179, 3, 57>>,
       <<97, 38, 103, 167>>, <<247, 22, 96, 208>>, <<77, 71, 105, 73>>, <<219, 119, 110, 62>>,
       <<74, 106, 209, 174>>, <<220, 90, 214, 217>>, <<102, 11, 223, 64>>, <<240, 59, 216, 55>>,
       <<83, 174, 188, 169>>, <<197, 158, 187, 222>>, <<127, 207, 178, 71>>, <<233, 255, 181, 48>>,
       <<28, 242, 189, 189>>, <<138, 194, 186, 202>>, <<48, 147, 179, 83>>, <<166, 163, 180, 36>>,
       <<5, 54, 208, 186>>, <<147, 6, 215, 205>>, <<41, 87, 222, 84>>, <<191, 103, 217, 35>>,
       <<46, 122, 102, 179>>, <<184, 74, 97, 196>>, <<2, 27, 104, 93>>, <<148, 43, 111, 42>>,
       <<55, 190, 11, 180>>, <<161, 142, 12, 195>>, <<27, 223, 5, 90>>, <<141, 239, 2, 45>> >>

\* the loop of crc32 from the i-th byte of buf on:
\* `idx = byte ^ (r & 0xff); r = (r >> 8) ^ CRCTABLE[idx]`
\* (the test on next has it computed before the loop goes on)
RECURSIVE Crc32From(_, _, _)
Crc32From(buf, i, r) ==
    IF i > Len(buf) THEN r
    ELSE LET next == Xor32(Shr8(r), CRCTABLE[BitXor(buf[i], r[1]) + 1])
         IN  IF Len(next) = 4 THEN Crc32From(buf, i + 1, next) ELSE next

\* crc32: seed 0xffffffff, result xored with 0xffffffff
crc32(buf) == Xor32(Crc32From(buf, 1, ALL_ONES), ALL_ONES)

\* the digits of a u32 in base 16, the most significant first
Nibbles(x) ==
    <<x[4] \div 16, x[4] % 16, x[3] \div 16, x[3] % 16,
      x[2] \div 16, x[2] % 16, x[1] \div 16, x[1] % 16>>

RECURSIVE StripZeros(_)
StripZeros(d) == IF Len(d) > 1 /\ d[1] = 0 THEN StripZeros(Tail(d)) ELSE d

LowerHex(n) == IF n < 10 THEN 48 + n ELSE 87 + n

\* format!("{crc:>8x}"): lower-case digits without leading zeros, filled with
\* spaces on the left to 8 characters
FormatHex8(x) ==
    LET d == StripZeros(Nibbles(x))
    IN  [i \in 1..(8 - Len(d)) |-> 32] \o [i \in 1..Len(d) |-> LowerHex(d[i])]

\* the cursor's position never advanced: every write starts at byte 0
CursorWriteAtStart(w, bytes) == bytes \o SubSeq(w, Len(bytes) + 1, Len(w))

\* Cursor<[u8; 64]>::write: what fits is written, the rest is dropped, and the
\* call succeeds; w is what has been written so far
CursorWrite(w, bytes) == w \o SubSeq(bytes, 1, Min(Len(bytes), BUF_LEN - Len(w)))

\* Packet::serialize (text family): None when write! cannot write the whole
\* checksum, or else the buffer
LightSerialize(p) ==
    LET w1 == CursorWrite(<<>>, <<STX, COLON, p.category, COLON, p.cmd_id, COLON>>)
        w2 == CursorWrite(w1, p.data)
        w3 == CursorWrite(w2, <<COLON, 48, COLON>>)
        text == FormatHex8(crc32(w3))
    IN  IF Len(w3) + Len(text) > BUF_LEN THEN None
        ELSE Some(Pad(CursorWrite(w3 \o text, <<COLON, ETX>>), BUF_LEN))

\* the checksum of the binary formats: Adler-32, as four bytes
RECURSIVE AdlerFrom(_, _, _, _)
AdlerFrom(buf, i, a, b) ==
    IF i > Len(buf) THEN <<a % 256, a \div 256, b % 256, b \div 256>>
    ELSE LET a1 == (a + buf[i]) % 65521
             b1 == (b + a1) % 65521
         IN  IF a1 + b1 >= 0 THEN AdlerFrom(buf, i + 1, a1, b1) ELSE <<>>

crc32_adler(buf) == AdlerFrom(buf, 1, 1, 0)

\* the most significant byte first
BE16(n) == <<n \div 256, n % 256>>

\* a u16 as the packed struct holds it on the build's little-endian targets
LE16(n) == <<n % 256, n \div 256>>

MCU_REQUEST_ID == 4919

\* McuPacket::serialize: the raw packet with its checksum over
\* bytes[5..5 + length]; copy_from_slice aborts on a payload over 42 bytes
McuSerialize(p) ==
    IF Len(p.data) > MCU_DATA_LEN THEN Aborted
    ELSE LET length == Len(p.data) + MCU_OVERHEAD
             raw == <<MCU_HEAD, 0, 0, 0, 0>> \o LE16(length)
                    \o LE16(MCU_REQUEST_ID) \o <<0, 0>> \o <<0, 0, 0, 0>>
                    \o LE16(p.cmd_id) \o Zeros(5) \o Pad(p.data, MCU_DATA_LEN)
         IN  Some(<<MCU_HEAD>> \o crc32_adler(SubSeq(raw, 6, 5 + length))
                  \o SubSeq(raw, 6, BUF_LEN))

IMU_HEAD == 170
IMU_OVERHEAD == 3
IMU_DATA_LEN == 56

\* ImuPacket::deserialize: None on a wrong head tag; the slice
\* `raw_packet.data[0..length - 3]` aborts when length is outside 3..59
ImuDeserialize(data) ==
    IF data[1] # IMU_HEAD THEN None
    ELSE LET length == U16At(data, 5)
         IN  IF length < IMU_OVERHEAD \/ length - IMU_OVERHEAD > IMU_DATA_LEN
             THEN Aborted
             ELSE Some([cmd_id |-> data[8],
                        data   |-> SubSeq(data, 9, 8 + length - IMU_OVERHEAD)])

\* ImuPacket::serialize: as McuPacket::serialize, on a payload of 56 bytes at most
ImuSerialize(p) ==
    IF Len(p.data) > IMU_DATA_LEN THEN Aborted
    ELSE LET length == Len(p.data) + IMU_OVERHEAD
             raw == <<IMU_HEAD, 0, 0, 0, 0>> \o LE16(length) \o <<p.cmd_id>>
                    \o Pad(p.data, IMU_DATA_LEN)
         IN  Some(<<IMU_HEAD>> \o crc32_adler(SubSeq(raw, 6, 5 + length))
                  \o SubSeq(raw, 6, BUF_LEN))

-----------------------------------------------------------------------------
(* The devices: what a transfer on the control channel can deliver *)

\* a frame as the text-family device puts it on the wire (the checksum field
\* is not computed: the driver never reads it)
LightWire(f) ==
    Pad(<<STX, COLON, f.category, COLON, f.cmd_id, COLON>> \o f.data
        \o <<COLON, 48, COLON>> \o <<48, 48, 48, 48, 48, 48, 48, 48>>
        \o <<COLON, ETX>>, BUF_LEN)

\* a raw buffer of the HID-family MCU's layout
McuRaw(head, length, cmd_id, data) ==
    Pad(<<head, 0, 0, 0, 0, length % 256, length \div 256, 0, 0, 0, 0, 0, 0, 0, 0,
          cmd_id % 256, cmd_id \div 256, 0, 0, 0, 0, 0>> \o data, BUF_LEN)

\* a frame as the HID-family MCU puts it on the wire
McuWire(f) == McuRaw(MCU_HEAD, Len(f.data) + MCU_OVERHEAD, f.cmd_id, f.data)

LightFrame(category, cmd_id, data) ==
    [category |-> category, cmd_id |-> cmd_id, data |-> data]

McuFrame(cmd_id, data) == [cmd_id |-> cmd_id, data |-> data]

\* buffers that are no frame: wrong start byte, no ETX, too few fields,
\* empty category field
LightJunk ==
    { Zeros(BUF_LEN),
      Pad(<<STX, COLON, 53, COLON, 75, COLON, 68, 78>>, BUF_LEN),
      Pad(<<STX, COLON, 53, COLON, 75, ETX>>, BUF_LEN),
      Pad(<<STX, COLON, COLON, 75, COLON, 68, 78, COLON, ETX>>, BUF_LEN) }

\* buffers with a wrong head tag
McuJunk == { Zeros(BUF_LEN), McuRaw(170, 18, MCU_KEY_ID, <<2>>) }

\* the unsolicited traffic of the text-family device, a cycle: key down,
\* proximity near, ping acknowledgment, ambient light, a frame with a command's
\* id but not its answer category, a stale display-mode answer; then key up,
\* proximity away, vsync, ambient light as "zz", "1F", "+a", "10000" and "",
\* and a key frame that is neither up nor down
LightTraffic ==
    << LightFrame(53, 75, <<68, 78>>),
       LightFrame(53, 80, <<110, 101, 97, 114>>),
       LightFrame(65, 75, <<120>>),
       LightFrame(53, 76, <<49, 102>>),
       LightFrame(50, 67, <<120>>),
       LightFrame(52, 51, <<49>>),
       LightFrame(53, 75, <<85, 80>>),
       LightFrame(53, 80, <<97, 119, 97, 121>>),
       LightFrame(53, 83, <<49>>),
       LightFrame(53, 76, <<122, 122>>),
       LightFrame(53, 76, <<49, 70>>),
       LightFrame(53, 76, <<43, 97>>),
       LightFrame(53, 76, <<49, 48, 48, 48, 48>>),
       LightFrame(53, 76, <<>>),
       LightFrame(53, 75, <<88, 88>>) >>

\* the unsolicited traffic of the HID-family MCU: key, error report, key,
\* an unknown id, a stale display-mode answer; then key frames whose payload
\* starts with 0 and is empty
McuTraffic ==
    << McuFrame(MCU_KEY_ID, <<2>>),
       McuFrame(MCU_ERROR_ID, <<69>>),
       McuFrame(MCU_KEY_ID, <<1>>),
       McuFrame(27650, <<>>),
       McuFrame(7, <<0, 3>>),
       McuFrame(MCU_KEY_ID, <<0>>),
       McuFrame(MCU_KEY_ID, <<>>) >>

Traffic == IF family = "light" THEN LightTraffic ELSE McuTraffic

\* the next unsolicited frame
NextTraffic == Traffic[((arrived + phase) % Len(Traffic)) + 1]

\* the commands the public operations pass to run_command:
\* serial, get_display_mode, set_display_mode(Stereo)
LightCommands ==
    { LightFrame(51, 67, <<120>>),
      LightFrame(51, 51, <<120>>),
      LightFrame(49, 51, <<51>>) }

McuCommands ==
    { McuFrame(21, <<>>),
      McuFrame(7, <<>>),
      McuFrame(8, <<3>>) }

\* the device's answers to the command being run
Answers ==
    IF command = None THEN {}
    ELSE IF family = "light"
    THEN { LightFrame(command.category + 1, command.cmd_id, d) : d \in {<<49>>, <<51>>} }
    ELSE { McuFrame(command.cmd_id, d) : d \in {<<0>>, <<0, 3>>} }

Wire(f) == IF family = "light" THEN LightWire(f) ELSE McuWire(f)

\* what one transfer on the control channel can end with: a timeout, another
\* transport error, or a 64-byte buffer, which is a frame of the device or not
ReadOutcomes ==
    { [kind |-> "timeout"], [kind |-> "io"] }
    \cup (IF junkRun < junkCap
          THEN { [kind |-> "buf", buf |-> b, frame |-> None] :
                   b \in (IF family = "light" THEN LightJunk ELSE McuJunk) }
          ELSE {})
    \cup (IF framesLeft > 0
          THEN { [kind |-> "buf", buf |-> Wire(f), frame |-> Some(f)] :
                   f \in Answers \cup {NextTraffic} }
          ELSE {})

IsFrame(o) == o.kind = "buf" /\ o.frame.kind = "some"

\* the arrival stamp of what the transfer delivered: 0 for what is no frame
Stamp(o) == IF IsFrame(o) THEN arrived + 1 ELSE 0

\* the record of one transfer on the control channel
Delivered(o) ==
    /\ didRead' = TRUE
    /\ arrived' = IF IsFrame(o) THEN arrived + 1 ELSE arrived
    /\ framesLeft' = IF IsFrame(o) THEN framesLeft - 1 ELSE framesLeft
    /\ got' = IF IsFrame(o)
              THEN Append(got, [pkt |-> o.frame.val, seq |-> arrived + 1])
              ELSE got
    /\ junkRun' = IF o.kind = "buf" /\ ~IsFrame(o) THEN junkRun + 1 ELSE 0
    /\ junkBefore' = IF IsFrame(o) THEN junkRun ELSE junkBefore
    /\ lastRead' = IF o.kind = "buf" THEN (IF IsFrame(o) THEN "frame" ELSE "junk") ELSE o.kind

\* what one write can end with
WriteOutcomes == { "ok", "io", "timeout" }

\* the record of a call, reset when a call begins
BeginCall ==
    /\ queue0' = pending
    /\ got' = <<>>
    /\ junkRun' = 0
    /\ junkBefore' = 0
    /\ timeouts' = 0
    /\ didRead' = FALSE
    /\ lastRead' = "none"
    /\ calledDue' = (clock - last_heartbeat > HEARTBEAT_MS)

-----------------------------------------------------------------------------
(* NrealLight: run_command *)

\* `packet.category == command.category + 1 && packet.cmd_id == command.cmd_id`
LightCorrelates(packet, cmd) ==
    packet.category = cmd.category + 1 /\ packet.cmd_id = cmd.cmd_id

\* push_front in the place of push_back
PushFront(q, e) == <<e>> \o q

\* a queue that holds 32 frames at most and drops what arrives when full
PushBackBounded(q, e) == IF Len(q) >= 32 THEN q ELSE Append(q, e)

\* VecDeque::push_back
PushBack(q, e) == Append(q, e)

\* pop_back in the place of pop_front
PopBack(q) == [elem |-> Last(q), rest |-> Front(q)]

\* VecDeque::pop_front on a non-empty queue: the element and the rest
PopFront(q) == [elem |-> Head(q), rest |-> Tail(q)]

\* read_packet taking a timeout for one more junk buffer
LightReadStepRetries(o) ==
    IF o.kind = "timeout" THEN [kind |-> "again"]
    ELSE IF o.kind # "buf" THEN Err(o.kind)
    ELSE LET d == LightDeserialize(o.buf)
         IN  IF d.kind = "some" THEN [kind |-> "packet", pkt |-> d.val]
             ELSE IF junk + 1 >= JUNK_ATTEMPTS THEN Err("junk")
             ELSE [kind |-> "again"]

\* One iteration of read_packet's `for _ in 0..8`, given how the transfer ended:
\* the transport's error, the decoded packet, another iteration, or the junk error
LightReadStep(o) ==
    IF o.kind # "buf" THEN Err(o.kind)
    ELSE LET d == LightDeserialize(o.buf)
         IN  IF d.kind = "some" THEN [kind |-> "packet", pkt |-> d.val]
             ELSE IF junk + 1 >= JUNK_ATTEMPTS THEN Err("junk")
             ELSE [kind |-> "again"]

\* the write's result dropped: no `?`
LightAfterWriteIgnores(w) == [pc |-> "cmd", ret |-> None]

\* `write_interrupt(..)?`: where run_command goes after its write, and with what
LightAfterWrite(w) ==
    IF w = "ok" THEN [pc |-> "cmd", ret |-> None] ELSE [pc |-> "idle", ret |-> Err(w)]

\* run_command up to its write: serialize, write_interrupt once, `?`
LightRunCommand(cmd) ==
    /\ family = "light"
    /\ pc = "idle"
    /\ BeginCall
    /\ command' = cmd
    /\ attempt' = 0
    /\ junk' = 0
    /\ IF ~LightSerializeFits(cmd)
       THEN /\ writes' = 0
            /\ wfail' = FALSE
            /\ lastWrite' = "none"
            /\ ret' = Err("serialize")
            /\ pc' = "idle"
       ELSE \E w \in WriteOutcomes :
            /\ writes' = 1
            /\ wfail' = (w # "ok")
            /\ lastWrite' = w
            /\ ret' = LightAfterWrite(w).ret
            /\ pc' = LightAfterWrite(w).pc
    /\ UNCHANGED <<family, beatAt, codecVars, displayVars, sampleVars, creationVars, imuVars, lastMotion, wasDisconnected, pending, last_heartbeat, slot, strong, tpc, clock,
                   arrived, phase, junkCap, reports, framesLeft, lastTaken, motions, tcause>>

\* run_command: one transfer of read_packet(COMMAND_TIMEOUT) inside `for _ in 0..64`
LightCmdRead ==
    /\ family = "light"
    /\ pc = "cmd"
    /\ \E o \in ReadOutcomes :
       LET r == LightReadStep(o)
       IN  /\ Delivered(o)
           /\ timeouts' = IF o.kind = "timeout" THEN timeouts + 1 ELSE timeouts
           /\ CASE r.kind = "err" ->
                     /\ ret' = r
                     /\ pc' = "idle"
                     /\ junk' = 0
                     /\ UNCHANGED <<pending, attempt>>
                [] r.kind = "again" ->
                     /\ junk' = junk + 1
                     /\ UNCHANGED <<pending, attempt, ret, pc>>
                [] r.kind = "packet" ->
                     /\ junk' = 0
                     /\ IF LightCorrelates(r.pkt, command)
                        THEN /\ ret' = [kind |-> "ok", data |-> r.pkt.data]
                             /\ pc' = "idle"
                             /\ UNCHANGED <<pending, attempt>>
                        ELSE /\ pending' = PushBack(pending, [pkt |-> r.pkt, seq |-> Stamp(o)])
                             /\ attempt' = attempt + 1
                             /\ IF attempt + 1 >= COMMAND_ATTEMPTS
                                THEN ret' = Err("unrelated") /\ pc' = "idle"
                                ELSE UNCHANGED <<ret, pc>>
    /\ UNCHANGED <<family, calledDue, beatAt, codecVars, displayVars, sampleVars, creationVars, imuVars, lastMotion, wasDisconnected, command, last_heartbeat, slot, strong, tpc, clock, phase, junkCap,
                   reports, queue0, writes, wfail, lastWrite, lastTaken, motions, tcause>>

-----------------------------------------------------------------------------
(* NrealAir: run_command *)

\* `packet.cmd_id == command.cmd_id`
McuCorrelates(packet, cmd) == packet.cmd_id = cmd.cmd_id

\* read_packet taking a buffer that does not decode for no packet yet
McuReadPacketSkips(o) ==
    IF o.kind = "timeout" THEN [kind |-> "nothing"]
    ELSE IF o.kind # "buf" THEN Err(o.kind)
    ELSE LET d == McuDeserialize(o.buf)
         IN  IF d.kind = "some" THEN [kind |-> "packet", pkt |-> d.val]
             ELSE IF d.kind = "abort" THEN [kind |-> "abort"]
             ELSE [kind |-> "nothing"]

\* NrealAir::read_packet, given how read_timeout ended: Ok(None) on 0 bytes,
\* the transport's error, the decoded packet, or "Malformed packet received"
McuReadPacket(o) ==
    IF o.kind = "timeout" THEN [kind |-> "nothing"]
    ELSE IF o.kind # "buf" THEN Err(o.kind)
    ELSE LET d == McuDeserialize(o.buf)
         IN  IF d.kind = "some" THEN [kind |-> "packet", pkt |-> d.val]
             ELSE IF d.kind = "abort" THEN [kind |-> "abort"]
             ELSE Err("malformed")

\* `self.device.write(..)?`: where run_command goes after its write, and with what
AirAfterWrite(w) ==
    IF w = "ok" THEN [pc |-> "cmd", ret |-> None] ELSE [pc |-> "idle", ret |-> Err(w)]

\* run_command up to its write: serialize, device.write once, `?`
AirRunCommand(cmd) ==
    /\ family = "air"
    /\ pc = "idle"
    /\ BeginCall
    /\ command' = cmd
    /\ attempt' = 0
    /\ IF ~McuSerializeFits(cmd)
       THEN /\ writes' = 0
            /\ wfail' = FALSE
            /\ lastWrite' = "none"
            /\ ret' = None
            /\ pc' = "aborted"
       ELSE \E w \in WriteOutcomes :
            /\ writes' = 1
            /\ wfail' = (w # "ok")
            /\ lastWrite' = w
            /\ ret' = AirAfterWrite(w).ret
            /\ pc' = AirAfterWrite(w).pc
    /\ UNCHANGED <<family, beatAt, codecVars, displayVars, sampleVars, creationVars, imuVars, lastMotion, wasDisconnected, junk, pending, last_heartbeat, slot, strong, tpc, clock,
                   arrived, phase, junkCap, reports, framesLeft, lastTaken, motions, tcause>>

\* run_command: one read_packet(COMMAND_TIMEOUT)?.ok_or(PacketTimeout)? inside
\* `for _ in 0..64`
AirCmdRead ==
    /\ family = "air"
    /\ pc = "cmd"
    /\ \E o \in ReadOutcomes :
       LET r == McuReadPacket(o)
       IN  /\ Delivered(o)
           /\ timeouts' = IF o.kind = "timeout" THEN timeouts + 1 ELSE timeouts
           /\ CASE r.kind = "err" ->
                     /\ ret' = r
                     /\ pc' = "idle"
                     /\ UNCHANGED <<pending, attempt>>
                [] r.kind = "nothing" ->
                     /\ ret' = Err("packet_timeout")
                     /\ pc' = "idle"
                     /\ UNCHANGED <<pending, attempt>>
                [] r.kind = "abort" ->
                     /\ pc' = "aborted"
                     /\ UNCHANGED <<pending, attempt, ret>>
                [] r.kind = "packet" ->
                     IF McuCorrelates(r.pkt, command)
                     THEN /\ ret' = [kind |-> "ok", data |-> r.pkt.data]
                          /\ pc' = "idle"
                          /\ UNCHANGED <<pending, attempt>>
                     ELSE /\ pending' = PushBack(pending, [pkt |-> r.pkt, seq |-> Stamp(o)])
                          /\ attempt' = attempt + 1
                          /\ IF attempt + 1 >= COMMAND_ATTEMPTS
                             THEN ret' = Err("unrelated") /\ pc' = "idle"
                             ELSE UNCHANGED <<ret, pc>>
    /\ UNCHANGED <<family, calledDue, beatAt, codecVars, displayVars, sampleVars, creationVars, imuVars, lastMotion, wasDisconnected, command, junk, last_heartbeat, slot, strong, tpc, clock,
                   phase, junkCap, reports, queue0, writes, wfail, lastWrite, lastTaken, motions, tcause>>

-----------------------------------------------------------------------------
(* NrealLight: read_event *)

\* upper-case digits refused
HexDigitLower(b) ==
    IF b >= 48 /\ b <= 57 THEN b - 48
    ELSE IF b >= 97 /\ b <= 102 THEN b - 87
    ELSE -1

\* to_digit(16): the value of one hexadecimal digit, -1 for any other byte
HexDigit(b) ==
    IF b >= 48 /\ b <= 57 THEN b - 48
    ELSE IF b >= 97 /\ b <= 102 THEN b - 87
    ELSE IF b >= 65 /\ b <= 70 THEN b - 55
    ELSE -1

\* the digits of s in base 16 on top of acc; -1 for a byte that is no digit or
\* a value that does not fit u16
RECURSIVE HexValue(_, _)
HexValue(s, acc) ==
    IF Len(s) = 0 THEN acc
    ELSE IF HexDigit(Head(s)) < 0 THEN -1
    ELSE IF acc * 16 + HexDigit(Head(s)) > 65535 THEN -1
    ELSE HexValue(Tail(s), acc * 16 + HexDigit(Head(s)))

\* u16::from_str_radix(String::from_utf8(data)?, 16): -1 stands for either error
\* (not UTF-8, or not a number); one leading '+' is accepted
ParseHexU16(data) ==
    LET digits == IF Len(data) > 0 /\ data[1] = 43 THEN Tail(data) ELSE data
    IN  IF Len(digits) = 0 THEN -1 ELSE HexValue(digits, 0)

\* the `match packet` of read_event: the event returned, the error returned, or
\* "discard" (the loop goes on)
LightClassify(p) ==
    IF p.category = 53 /\ p.cmd_id = 75 /\ p.data = <<85, 80>>
    THEN Event("KeyPress", 0)
    ELSE IF p.category = 53 /\ p.cmd_id = 75 /\ p.data = <<68, 78>>
    THEN Event("KeyPress", 1)
    ELSE IF p.category = 53 /\ p.cmd_id = 80 /\ p.data = <<110, 101, 97, 114>>
    THEN Event("ProximityNear", 0)
    ELSE IF p.category = 53 /\ p.cmd_id = 80 /\ p.data = <<97, 119, 97, 121>>
    THEN Event("ProximityFar", 0)
    ELSE IF p.category = 53 /\ p.cmd_id = 76
    THEN IF ParseHexU16(p.data) < 0 THEN Err("ambient")
         ELSE Event("AmbientLight", ParseHexU16(p.data))
    ELSE IF p.category = 53 /\ p.cmd_id = 83
    THEN Event("VSync", 0)
    ELSE [kind |-> "discard"]

\* read_event is called: the loop is entered
LightReadEvent ==
    /\ family = "light"
    /\ pc = "idle"
    /\ BeginCall
    /\ pc' = "ev_hb"
    /\ ret' = None
    /\ command' = None
    /\ writes' = 0
    /\ wfail' = FALSE
    /\ lastWrite' = "none"
    /\ junk' = 0
    /\ UNCHANGED <<family, beatAt, codecVars, displayVars, sampleVars, creationVars, imuVars, lastMotion, wasDisconnected, attempt, pending, last_heartbeat, slot, strong,
                   tpc, clock, arrived, phase, junkCap, reports, framesLeft, lastTaken,
                   motions, tcause>>

\* the heartbeat due after the half second of the module's documentation
HeartbeatDueLate(now, last) == now - last > 2 * HEARTBEAT_MS

\* the heartbeat due as soon as the period has elapsed
HeartbeatDueAtPeriod(now, last) == now - last >= HEARTBEAT_MS

\* `now.duration_since(self.last_heartbeat) > Duration::from_millis(250)`
HeartbeatDue(now, last) == now - last > HEARTBEAT_MS

\* the write's result dropped and the time recorded whatever it was
BeatAfterWriteForgets(w, now, last) == [pc |-> "ev_slot", ret |-> None, last |-> now]

\* `write_interrupt(..)?; self.last_heartbeat = now;`: where read_event goes
\* after the heartbeat's write, with what, and the time it records
BeatAfterWrite(w, now, last) ==
    IF w = "ok"
    THEN [pc |-> "ev_slot", ret |-> None, last |-> now]
    ELSE [pc |-> "idle", ret |-> Err(w), last |-> last]

\* top of the loop: the time is sampled and the heartbeat written when due
LightHeartbeat ==
    /\ family = "light"
    /\ pc = "ev_hb"
    /\ LET now == clock
       IN  IF HeartbeatDue(now, last_heartbeat)
           THEN \E w \in WriteOutcomes :
                LET a == BeatAfterWrite(w, now, last_heartbeat)
                IN  /\ writes' = writes + 1
                    /\ wfail' = (w # "ok")
                    /\ lastWrite' = w
                    /\ beatAt' = IF w = "ok" THEN now ELSE beatAt
                    /\ last_heartbeat' = a.last
                    /\ pc' = a.pc
                    /\ ret' = a.ret
           ELSE /\ pc' = "ev_slot"
                /\ UNCHANGED <<writes, wfail, lastWrite, beatAt, last_heartbeat, ret>>
    /\ UNCHANGED <<family, calledDue, codecVars, displayVars, sampleVars, creationVars, imuVars, lastMotion, wasDisconnected, command, attempt, junk, pending, slot, strong, tpc, clock,
                   arrived, phase, junkCap, reports, framesLeft, queue0, got, junkRun, junkBefore,
                   timeouts, didRead, lastRead, lastTaken, motions, tcause>>

\* the queue looked at before the slot
QueueFirst(s, q) == s.kind = "some" /\ Len(q) = 0

\* `if let Some(..) = self.last_acc_gyro.lock().unwrap().take()`: the slot is
\* served whenever it holds a value, whatever is pending
SlotFirst(s, q) == s.kind = "some"

\* the slot check of read_event
LightSlotCheck ==
    /\ family = "light"
    /\ pc = "ev_slot"
    /\ IF SlotFirst(slot, pending)
       THEN /\ ret' = Event("AccGyro", slot.val)
            /\ motions' = motions + 1
            /\ lastMotion' = slot.val
            /\ slot' = None
            /\ pc' = "idle"
       ELSE /\ pc' = "ev_alive"
            /\ UNCHANGED <<ret, motions, lastMotion, slot>>
    /\ UNCHANGED <<family, calledDue, beatAt, codecVars, displayVars, sampleVars, creationVars, imuVars, wasDisconnected, command, attempt, junk, pending, last_heartbeat, strong,
                   tpc, clock, arrived, phase, junkCap, reports, framesLeft, queue0, got,
                   junkRun, junkBefore, timeouts, didRead, lastRead, writes, wfail, lastWrite, lastTaken, tcause>>

\* `if Arc::strong_count(&self.last_acc_gyro) != 2`
LightLiveness ==
    /\ family = "light"
    /\ pc = "ev_alive"
    /\ IF strong # 2
       THEN ret' = Err("disconnected") /\ pc' = "idle" /\ wasDisconnected' = TRUE
       ELSE ret' = ret /\ pc' = "ev_drain" /\ wasDisconnected' = wasDisconnected
    /\ UNCHANGED <<family, calledDue, beatAt, codecVars, displayVars, sampleVars, creationVars, imuVars, lastMotion, command, attempt, junk, pending, last_heartbeat, slot,
                   strong, tpc, clock, arrived, phase, junkCap, reports, framesLeft, queue0,
                   got, junkRun, junkBefore, timeouts, didRead, lastRead, writes, wfail, lastWrite, lastTaken,
                   motions, tcause>>

\* the end of a loop iteration that consumed frame e: return or go round
LightConsume(e) ==
    LET c == LightClassify(e.pkt)
    IN  /\ lastTaken' = e.seq
        /\ IF c.kind = "discard"
           THEN ret' = ret /\ pc' = "ev_hb"
           ELSE ret' = c @@ [seq |-> e.seq] /\ pc' = "idle"

\* every error of the read returned, the timeout too
PollTimeoutReturned(r) == FALSE

\* `Err(Error::UsbError(rusb::Error::Timeout)) => continue`
PollTimeout(r) == r.kind = "err" /\ r.err = "timeout"

\* pop_front, or else one transfer of read_packet(1ms); then the match
LightDrain ==
    /\ family = "light"
    /\ pc = "ev_drain"
    /\ IF Len(pending) > 0
       THEN /\ pending' = PopFront(pending).rest
            /\ LightConsume(PopFront(pending).elem)
            /\ UNCHANGED <<junk, arrived, framesLeft, got, junkRun, junkBefore, didRead, lastRead>>
       ELSE \E o \in ReadOutcomes :
            LET r == LightReadStep(o)
            IN  /\ Delivered(o)
                /\ pending' = pending
                /\ CASE r.kind = "err" /\ PollTimeout(r) ->
                          /\ pc' = "ev_hb"
                          /\ junk' = 0
                          /\ UNCHANGED <<ret, lastTaken>>
                     [] r.kind = "err" /\ ~PollTimeout(r) ->
                          /\ ret' = r
                          /\ pc' = "idle"
                          /\ junk' = 0
                          /\ UNCHANGED <<lastTaken>>
                     [] r.kind = "again" ->
                          /\ junk' = junk + 1
                          /\ UNCHANGED <<ret, pc, lastTaken>>
                     [] r.kind = "packet" ->
                          /\ junk' = 0
                          /\ LightConsume([pkt |-> r.pkt, seq |-> Stamp(o)])
    /\ UNCHANGED <<family, calledDue, beatAt, codecVars, displayVars, sampleVars, creationVars, imuVars, lastMotion, wasDisconnected, command, attempt, last_heartbeat, slot, strong, tpc,
                   clock, phase, junkCap, reports, queue0, timeouts, writes, wfail, lastWrite, motions,
                   tcause>>

\* the session is dropped: its Arc is released
DropSession ==
    /\ pc = "idle"
    /\ pc' = "dropped"
    /\ strong' = strong - 1
    /\ UNCHANGED <<family, calledDue, beatAt, codecVars, displayVars, sampleVars, creationVars, imuVars, lastMotion, wasDisconnected, command, attempt, junk, pending, ret, last_heartbeat,
                   slot, tpc, clock, arrived, phase, junkCap, reports, framesLeft, queue0,
                   got, junkRun, junkBefore, timeouts, didRead, lastRead, writes, wfail, lastWrite, lastTaken,
                   motions, tcause>>

-----------------------------------------------------------------------------
(* NrealLight: the OV580 receiving thread *)

\* what one read_interrupt(0x89, .., 250 ms) of the sensor channel can end with:
\* a timeout or another transport error, a report whose first byte is 1 (a motion
\* sample) or a report of another kind
SensorOutcomes ==
    { [kind |-> "timeout"], [kind |-> "io"] }
    \cup { [kind |-> "report", b0 |-> 2, b1 |-> 1] }
    \cup (IF reports < MaxReports
          THEN { [kind |-> "report", b0 |-> 1, b1 |-> b] : b \in {0, 2} }
          ELSE {})

\* the OV580 sent a motion report: one whose first byte is 1
IsMotion(o) == o.kind = "report" /\ o.b0 = 1

\* every report decoded, whatever its first byte
ReceiveAnyReport(o) ==
    IF o.kind # "report" THEN Err(o.kind)
    ELSE Some(reports + 1)

\* receive_one_report, given how the transfer ended: Err, Ok(None), Ok(Some(n))
\* where n numbers the report that was decoded
ReceiveOneReport(o) ==
    IF o.kind # "report" THEN Err(o.kind)
    ELSE IF o.b0 # 1 THEN None
    ELSE Some(reports + 1)

\* the loop going on while anyone holds the slot
ThreadGoesOnHeld(count) == count >= 1

\* `while Arc::strong_count(&sensor_data) == 2`
ThreadGoesOn(count) == count = 2

\* a value in the slot kept until it is taken
SlotKeep(old, new) == IF old.kind = "some" THEN old ELSE Some(new)

\* `*sensor_data.lock().unwrap() = Some(data)`
SlotWrite(old, new) == Some(new)

\* the loop condition; leaving the closure releases the thread's Arc
ThreadCheck ==
    /\ tpc = "check"
    /\ IF ThreadGoesOn(strong)
       THEN tpc' = "read" /\ strong' = strong /\ tcause' = tcause
       ELSE tpc' = "exited" /\ strong' = strong - 1 /\ tcause' = "count"
    /\ UNCHANGED <<family, calledDue, beatAt, codecVars, displayVars, sampleVars, creationVars, imuVars, lastMotion, wasDisconnected, pc, command, attempt, junk, pending, ret, last_heartbeat,
                   slot, clock, arrived, phase, junkCap, reports, framesLeft, queue0, got,
                   junkRun, junkBefore, timeouts, didRead, lastRead, writes, wfail, lastWrite, lastTaken, motions>>

\* the loop body: receive_one_report and the match on its result
ThreadRead ==
    /\ tpc = "read"
    /\ \E o \in SensorOutcomes :
       LET r == ReceiveOneReport(o)
       IN  /\ reports' = IF IsMotion(o) THEN reports + 1 ELSE reports
           /\ CASE r.kind = "err" ->
                  /\ tpc' = "exited"
                  /\ tcause' = r.err
                  /\ strong' = strong - 1
                  /\ UNCHANGED <<slot>>
             [] r.kind = "some" ->
                  /\ slot' = SlotWrite(slot, r.val)
                  /\ tpc' = "check"
                  /\ UNCHANGED <<strong, tcause>>
             [] r.kind = "none" ->
                  /\ tpc' = "check"
                  /\ UNCHANGED <<slot, strong, tcause>>
    /\ UNCHANGED <<family, calledDue, beatAt, codecVars, displayVars, sampleVars, creationVars, imuVars, lastMotion, wasDisconnected, pc, command, attempt, junk, pending, ret, last_heartbeat,
                   clock, arrived, phase, junkCap, framesLeft, queue0, got, junkRun, junkBefore, timeouts,
                   didRead, lastRead, writes, wfail, lastWrite, lastTaken, motions>>

\* time passes: by exactly the heartbeat period, or by just more
TickSteps == {250, 251}

TickTo(max) ==
    /\ family = "light"
    /\ pc # "dropped"
    /\ \E d \in TickSteps :
       /\ clock + d <= max
       /\ clock' = clock + d
    /\ UNCHANGED <<family, calledDue, beatAt, codecVars, displayVars, sampleVars, creationVars, imuVars, lastMotion, wasDisconnected, pc, command, attempt, junk, pending, ret, last_heartbeat,
                   slot, strong, tpc, arrived, phase, junkCap, reports, framesLeft, queue0,
                   got, junkRun, junkBefore, timeouts, didRead, lastRead, writes, wfail, lastWrite, lastTaken,
                   motions, tcause>>

\* time in the polling scenario
Tick == TickTo(MaxClock)

-----------------------------------------------------------------------------
(* NrealAir: read_event *)

\* the `match packet` of read_mcu_packet: the outcomes the build can produce.
\* `data[0] - 1` indexes an empty payload (abort) or underflows u8 on 0 (abort
\* with overflow checks, 255 without)
McuClassify(p) ==
    IF p.cmd_id = MCU_KEY_ID
    THEN IF Len(p.data) = 0 THEN { Aborted }
         ELSE IF p.data[1] = 0 THEN { Aborted, Event("KeyPress", 255) }
         ELSE { Event("KeyPress", p.data[1] - 1) }
    ELSE { [kind |-> "nothing"] }

\* the end of read_mcu_packet for a consumed frame e, and read_event's branch on it
AirConsume(e) ==
    /\ lastTaken' = e.seq
    /\ \E c \in McuClassify(e.pkt) :
         CASE c.kind = "abort" -> pc' = "aborted" /\ ret' = ret
           [] c.kind = "event" -> pc' = "idle" /\ ret' = c @@ [seq |-> e.seq]
           [] c.kind = "nothing" -> pc' = "imu" /\ ret' = ret

\* read_event is called
AirReadEvent ==
    /\ family = "air"
    /\ pc = "idle"
    /\ BeginCall
    /\ pc' = "mcu"
    /\ ret' = None
    /\ command' = None
    /\ writes' = 0
    /\ wfail' = FALSE
    /\ lastWrite' = "none"
    /\ imuReads' = 0
    /\ lastSensor' = "none"
    /\ UNCHANGED <<family, beatAt, codecVars, displayVars, sampleVars, creationVars, lastMotion, wasDisconnected, attempt, junk, pending, last_heartbeat, slot, strong, tpc,
                   clock, arrived, phase, junkCap, reports, framesLeft, lastTaken, motions,
                   tcause>>

\* read_mcu_packet: pop_front, or else read_packet(0); then the match
AirReadMcu ==
    /\ family = "air"
    /\ pc = "mcu"
    /\ IF Len(pending) > 0
       THEN /\ pending' = PopFront(pending).rest
            /\ AirConsume(PopFront(pending).elem)
            /\ UNCHANGED <<arrived, framesLeft, got, junkRun, junkBefore, didRead, lastRead>>
       ELSE \E o \in ReadOutcomes :
            LET r == McuReadPacket(o)
            IN  /\ Delivered(o)
                /\ pending' = pending
                /\ CASE r.kind = "err" ->
                          /\ ret' = r
                          /\ pc' = "idle"
                          /\ UNCHANGED <<lastTaken>>
                     [] r.kind = "nothing" ->
                          /\ pc' = "imu"
                          /\ UNCHANGED <<ret, lastTaken>>
                     [] r.kind = "abort" ->
                          /\ pc' = "aborted"
                          /\ UNCHANGED <<ret, lastTaken>>
                     [] r.kind = "packet" ->
                          AirConsume([pkt |-> r.pkt, seq |-> Stamp(o)])
    /\ UNCHANGED <<family, calledDue, beatAt, codecVars, displayVars, sampleVars, creationVars, imuVars, lastMotion, wasDisconnected, command, attempt, junk, last_heartbeat, slot, strong, tpc,
                   clock, phase, junkCap, reports, queue0, timeouts, writes, wfail, lastWrite, motions,
                   tcause>>

\* what one read_timeout(.., IMU_TIMEOUT) of the HID family's sensor channel can
\* end with: as SensorOutcomes, the device sending a bounded number of reports
\* to one call
ImuOutcomes ==
    { o \in SensorOutcomes : o.kind = "report" => imuReads < MaxImuReports }

\* a report of the text family's kind: the first byte alone
ImuMarkerFirstByte(b0, b1) == b0 = 1

\* `packet_data[0] == 1 && packet_data[1] == 2`
ImuMarker(b0, b1) == b0 = 1 /\ b1 = 2

\* ImuDevice::read_packet: one read_timeout of its loop; a report that does not
\* start with 1, 2 is skipped and the loop reads again
AirImuRead ==
    /\ family = "air"
    /\ pc = "imu"
    /\ \E o \in ImuOutcomes :
       /\ imuReads' = imuReads + 1
       /\ lastSensor' = o
       /\ IF o.kind = "timeout"
          THEN /\ ret' = Err("packet_timeout")
               /\ pc' = "idle"
               /\ UNCHANGED <<reports, motions>>
          ELSE IF o.kind # "report"
          THEN /\ ret' = Err(o.kind)
               /\ pc' = "idle"
               /\ UNCHANGED <<reports, motions>>
          ELSE IF ImuMarker(o.b0, o.b1)
          THEN /\ ret' = Event("AccGyro", reports + 1)
               /\ reports' = reports + 1
               /\ motions' = motions + 1
               /\ pc' = "idle"
          ELSE UNCHANGED <<ret, pc, reports, motions>>
    /\ UNCHANGED <<family, calledDue, beatAt, codecVars, displayVars, sampleVars, creationVars, lastMotion, wasDisconnected, command, attempt, junk, pending, last_heartbeat, slot,
                   strong, tpc, clock, arrived, phase, junkCap, framesLeft, queue0, got,
                   junkRun, junkBefore, timeouts, didRead, lastRead, writes, wfail, lastWrite, lastTaken, tcause>>

-----------------------------------------------------------------------------
(* The creation of a session: NrealLight::new, NrealAir::new *)

OV_STREAM == 25
OV_CONFIG_START == 20
OV_CONFIG_CHUNK == 21
CONFIG_FROM == 40

\* the session new() returns
Session == [kind |-> "session"]

\* the stream turned back on before the configuration is read
LightOrderStreamOnEarly ==
    <<"open", "h1", "h2", "h3", "sensor", "off", "on", "cfg_start", "cfg_chunk",
      "parse", "spawn", "done">>

\* the steps of NrealLight::new, Ov580::new in its place
LightOrder ==
    <<"open", "h1", "h2", "h3", "sensor", "off", "cfg_start", "cfg_chunk", "parse",
      "on", "spawn", "done">>

\* the steps of NrealAir::new, ImuDevice::new_device in its place
AirOrder ==
    <<"open", "sensor", "off", "cfg_start", "cfg_chunk", "parse", "on", "serial",
      "done">>

Order == IF family = "light" THEN LightOrder ELSE AirOrder

\* the step that follows step s
After(s) == Order[Position(Order, s) + 1]

\* the commands of NrealLight::new: disable vsync, SDK works, enable ambient light
Handshake ==
    <<LightFrame(49, 78, <<48>>), LightFrame(64, 51, <<49>>), LightFrame(49, 76, <<49>>)>>

HandshakeSteps == <<"h1", "h2", "h3">>

\* `serial()`'s command on the HID family's control channel
SerialCommand == McuFrame(21, <<>>)

\* the step succeeded: new() goes on
Proceed(s) ==
    /\ npc' = After(s)
    /\ steps' = Append(steps, s)
    /\ nret' = nret

\* `?`: new() returns the step's error
Fail(e) ==
    /\ npc' = "failed"
    /\ nret' = e
    /\ steps' = steps

\* a panic: new() does not return
Abort ==
    /\ npc' = "aborted"
    /\ UNCHANGED <<nret, steps>>

\* open_device_vid_pid_endpoint / open_vid_pid_endpoint on the control device
NewOpen ==
    /\ npc = "open"
    /\ \/ Proceed("open")
       \/ Fail(Err("open"))
    /\ UNCHANGED <<sessionVars, codecVars, displayVars, sampleVars, sensorLog, stream, blob, announced, config, biases>>

\* a handshake command is run
NewHandshake(k) ==
    /\ npc = HandshakeSteps[k]
    /\ command # Handshake[k]
    /\ LightRunCommand(Handshake[k])

\* `result.run_command(..)?` has returned
NewHandshakeDone ==
    /\ family = "light"
    /\ npc \in {"h1", "h2", "h3"}
    /\ pc = "idle"
    /\ command = Handshake[Position(HandshakeSteps, npc)]
    /\ IF ret.kind = "ok" THEN Proceed(npc) ELSE Fail(ret)
    /\ UNCHANGED <<sessionVars, codecVars, displayVars, sampleVars, sensorLog, stream, blob, announced, config, biases>>

\* open_device_vid_pid_endpoint(0x05a9, 0x0680, 0x89) / open_vid_pid_endpoint(.., 3)
SensorOpen ==
    /\ npc = "sensor"
    /\ \/ Proceed("sensor")
       \/ Fail(Err("open"))
    /\ UNCHANGED <<sessionVars, codecVars, displayVars, sampleVars, sensorLog, stream, blob, announced, config, biases>>

\* how a command on the sensor device ends: its write fails; or the device
\* gets it and acknowledges, or a read fails, or none of 64 reads is an
\* acknowledgement
SensorCommandOutcomes == {"write", "ok", "io", "timeout", "noack"}

\* the device got the command
Received(o) == o # "write"

\* the sensor device's record of a command, and its stream as the command sets it
SensorGets(o, cmd, sub) ==
    /\ sensorLog' = IF Received(o)
                    THEN Append(sensorLog, [cmd |-> cmd, sub |-> sub, stream |-> stream])
                    ELSE sensorLog
    /\ stream' = IF Received(o) /\ cmd = OV_STREAM THEN (sub = 1) ELSE stream

\* `result.command(0x19, 0x0)?`
StreamOff ==
    /\ npc = "off"
    /\ \E o \in SensorCommandOutcomes :
          /\ SensorGets(o, OV_STREAM, 0)
          /\ IF o = "ok" THEN Proceed("off") ELSE Fail(Err(o))
    /\ UNCHANGED <<sessionVars, codecVars, displayVars, sampleVars, blob, announced, config, biases>>

\* one chunk more is read when the announced length has been reached exactly
ChunkLoopOneMore(have, len) == have <= len

\* `while config.len() < len as usize`
ChunkLoopGoesOn(have, len) == have < len

\* the start of read_config: `command(0x14, ..)?`; NrealAir reads the length
\* out of the answer, and aborts on an answer that is not 4 bytes
ConfigStart ==
    /\ npc = "cfg_start"
    /\ \E o \in SensorCommandOutcomes \cup (IF family = "air" THEN {"badlen"} ELSE {}) :
          /\ SensorGets(o, OV_CONFIG_START, 0)
          /\ IF o = "ok"
             THEN IF family = "air" /\ ~ChunkLoopGoesOn(0, announced)
                  THEN /\ npc' = "parse"
                       /\ steps' = Append(steps, "cfg_start")
                       /\ nret' = nret
                  ELSE Proceed("cfg_start")
             ELSE IF o = "badlen" THEN Abort
             ELSE Fail(Err(o))
    /\ UNCHANGED <<sessionVars, codecVars, displayVars, sampleVars, blob, announced, config, biases>>

\* the bytes of the configuration the device sends next
NextChunk == SubSeq(blob, Len(config) + 1, Min(Len(blob), Len(config) + ChunkLen))

\* the 0x15 commands the sensor device has got
ChunkCommands == Len(SelectSeq(sensorLog, LAMBDA c : c.cmd = OV_CONFIG_CHUNK))

\* what the HID family's sensor device can answer a 0x15 with: the next bytes
\* of its configuration, a full chunk of them or one byte; nothing when it has
\* sent them all, and that a bounded number of times
AirChunks ==
    { c \in { SubSeq(blob, Len(config) + 1, Min(Len(blob), Len(config) + n)) :
                n \in {1, ChunkLen} } :
        Len(c) = 0 => ChunkCommands < Len(blob) + MaxEmptyChunks }

\* one `command(0x15, ..)?` of read_config's loop: NrealLight stops at the
\* first answer that is no chunk, NrealAir when it has the announced length
ConfigChunk ==
    /\ npc = "cfg_chunk"
    /\ \E o \in SensorCommandOutcomes :
          /\ IF o # "ok"
             THEN Fail(Err(o)) /\ config' = config
             ELSE IF family = "light"
             THEN IF Len(NextChunk) = 0
                  THEN Proceed("cfg_chunk") /\ config' = config
                  ELSE /\ config' = config \o NextChunk
                       /\ UNCHANGED <<npc, steps, nret>>
             ELSE \E c \in AirChunks :
                  /\ config' = config \o c
                  /\ IF ChunkLoopGoesOn(Len(config'), announced)
                     THEN UNCHANGED <<npc, steps, nret>>
                     ELSE Proceed("cfg_chunk")
          /\ SensorGets(o, OV_CONFIG_CHUNK, 0)
    /\ UNCHANGED <<sessionVars, codecVars, displayVars, sampleVars, blob, announced, biases>>

\* String::from_utf8 accepts the bytes (of those the devices send here, all
\* but 0xff)
Utf8(s) == \A i \in 1..Len(s) : s[i] < 128

\* the JSON parser, by the documents the devices send: "{G}" stands for a
\* document with IMU.device_1.accel_bias and gyro_bias, "{N}" for one without
\* them, either with spaces after it, and any other text is no JSON
RECURSIVE TrimEnd(_)
TrimEnd(s) == IF Len(s) > 0 /\ s[Len(s)] = 32 THEN TrimEnd(SubSeq(s, 1, Len(s) - 1)) ELSE s

JsonParse(text) ==
    IF TrimEnd(text) = <<123, 71, 125>> THEN "good"
    ELSE IF TrimEnd(text) = <<123, 78, 125>> THEN "nobias"
    ELSE "error"

\* index of the first "\n\n" of s, 0 when there is none
RECURSIVE BlankLineFrom(_, _)
BlankLineFrom(s, i) ==
    IF i + 1 > Len(s) THEN 0
    ELSE IF s[i] = 10 /\ s[i + 1] = 10 THEN i
    ELSE BlankLineFrom(s, i + 1)

\* the body of `if config[i..i + 3] == [b'\n', b'\n', b'{']`, i counted from 0:
\* the biases read, an error, or a panic
LightParseAt(cfg, i) ==
    LET rest == SubSeq(cfg, i + 3, Len(cfg))
        end == BlankLineFrom(rest, 1)
    IN  IF ~Utf8(rest) THEN Err("no start token")
        ELSE IF end = 0 THEN Err("no end token")
        ELSE IF JsonParse(SubSeq(rest, 1, end - 1)) = "error" THEN Err("JSON parse error")
        ELSE IF JsonParse(SubSeq(rest, 1, end - 1)) = "nobias" THEN Aborted
        ELSE [kind |-> "ok", biases |-> "set"]

\* `for i in 0x28..config.len() - 4`, from i on, b being the biases so far; the
\* loop goes on after a match
RECURSIVE LightScan(_, _, _)
LightScan(cfg, i, b) ==
    IF i >= Len(cfg) - 4 THEN [kind |-> "ok", biases |-> b]
    ELSE IF SubSeq(cfg, i + 1, i + 3) = <<10, 10, 123>>
    THEN LET r == LightParseAt(cfg, i)
         IN  IF r.kind = "ok" THEN LightScan(cfg, i + 1, r.biases) ELSE r
    ELSE LightScan(cfg, i + 1, b)

\* what follows the loop of Ov580::read_config: `config.len() - 4` overflows on
\* fewer than 4 bytes (a panic, at once or at the first slice)
LightParse(cfg) ==
    IF Len(cfg) < 4 THEN Aborted ELSE LightScan(cfg, CONFIG_FROM, "zero")

\* the end of ImuDevice::read_config, and parse_config
AirParse(cfg) ==
    IF ~Utf8(cfg) THEN Err("not utf-8")
    ELSE IF JsonParse(cfg) = "error" THEN Err("JSON parse error")
    ELSE IF JsonParse(cfg) = "nobias" THEN Aborted
    ELSE [kind |-> "ok", biases |-> "set"]

\* the configuration is parsed; read_config returns, and its buffer is dropped
ConfigParse ==
    /\ npc = "parse"
    /\ LET r == IF family = "light" THEN LightParse(config) ELSE AirParse(config)
       IN  IF r.kind = "ok" THEN Proceed("parse") /\ biases' = r.biases
           ELSE IF r.kind = "abort" THEN Abort /\ biases' = biases
           ELSE Fail(r) /\ biases' = biases
    /\ config' = <<>>
    /\ UNCHANGED <<sessionVars, codecVars, displayVars, sampleVars, sensorLog, stream, blob, announced>>

\* `result.command(0x19, 0x1)?`
StreamOn ==
    /\ npc = "on"
    /\ \E o \in SensorCommandOutcomes :
          /\ SensorGets(o, OV_STREAM, 1)
          /\ IF o = "ok" THEN Proceed("on") ELSE Fail(Err(o))
    /\ UNCHANGED <<sessionVars, codecVars, displayVars, sampleVars, blob, announced, config, biases>>

\* `Ov580::new()?.start_receiving_thread(result.last_acc_gyro.clone())`
Spawn ==
    /\ family = "light"
    /\ npc = "spawn"
    /\ strong' = strong + 1
    /\ tpc' = "check"
    /\ Proceed("spawn")
    /\ UNCHANGED <<family, calledDue, pc, command, attempt, junk, pending, ret, last_heartbeat,
                   slot, clock, arrived, phase, junkCap, reports, framesLeft,
                   queue0, got, junkRun, junkBefore, timeouts, didRead, writes,
                   wfail, lastTaken, motions, tcause, wasDisconnected, lastWrite,
                   beatAt, lastRead, lastMotion, imuVars, codecVars, displayVars, sampleVars, sensorLog, stream, blob, announced, config,
                   biases>>

\* `result.serial()?`: its command is run
NewSerial ==
    /\ npc = "serial"
    /\ command = None
    /\ AirRunCommand(SerialCommand)

\* serial() has returned: `result.remove(0)` panics on an empty answer
NewSerialDone ==
    /\ family = "air"
    /\ npc = "serial"
    /\ command = SerialCommand
    /\ pc \in {"idle", "aborted"}
    /\ IF pc = "aborted" THEN Abort
       ELSE IF ret.kind # "ok" THEN Fail(ret)
       ELSE IF Len(ret.data) = 0 THEN Abort
       ELSE IF ~Utf8(Tail(ret.data)) THEN Fail(Err("utf-8"))
       ELSE Proceed("serial")
    /\ UNCHANGED <<sessionVars, codecVars, displayVars, sampleVars, sensorLog, stream, blob, announced, config, biases>>

\* `Ok(result)`
NewReturn ==
    /\ npc = "done"
    /\ nret = None
    /\ nret' = Session
    /\ UNCHANGED <<sessionVars, codecVars, displayVars, sampleVars, npc, steps, sensorLog, stream, blob, announced, config, biases>>

-----------------------------------------------------------------------------
(* The specifications *)

\* a value not computed yet
Unset == [kind |-> "unset"]

\* no codec run is under way
CodecIdle == cin = Unset /\ cwire = Unset /\ cout = Unset

\* no display-mode call has been made: the glasses mirror at 60 Hz
DisplayIdle == panel = 1 /\ asked = None /\ dret = None

\* no report is being normalized
SampleIdle == report = Unset /\ sample = Unset

\* new() has returned the session; what it did is not recorded
Created ==
    /\ npc = "done"
    /\ nret = Session
    /\ steps = <<>>
    /\ sensorLog = <<>>
    /\ stream = TRUE
    /\ blob = <<>>
    /\ config = <<>>
    /\ announced = 0
    /\ biases = "set"

\* a session after construction, the device having sent nothing unsolicited
\* meanwhile
InitSession ==
    /\ family \in Families
    /\ pc = "idle"
    /\ command = None
    /\ attempt = 0
    /\ junk = 0
    /\ pending = <<>>
    /\ ret = None
    /\ clock = 0
    /\ last_heartbeat = 0
    /\ slot = None
    /\ strong = IF family = "light" THEN 2 ELSE 1
    /\ tpc = IF family = "light" THEN "check" ELSE "none"
    /\ arrived = 0
    /\ reports = 0
    /\ queue0 = <<>>
    /\ got = <<>>
    /\ junkRun = 0
    /\ junkBefore = 0
    /\ timeouts = 0
    /\ didRead = FALSE
    /\ writes = 0
    /\ wfail = FALSE
    /\ lastWrite = "none"
    /\ beatAt = -1
    /\ lastTaken = 0
    /\ motions = 0
    /\ tcause = "none"
    /\ wasDisconnected = FALSE
    /\ lastRead = "none"
    /\ calledDue = FALSE
    /\ lastMotion = 0
    /\ imuReads = 0
    /\ lastSensor = "none"

\* one run_command on a fresh session, the device at one of the first points of
\* its traffic cycle
\* and with frames enough to exhaust the command's attempts
InitCmd ==
    /\ InitSession
    /\ CodecIdle
    /\ DisplayIdle
    /\ SampleIdle
    /\ Created
    /\ phase \in 0..MaxPhase
    /\ framesLeft = CmdFrames
    /\ junkCap = CmdJunk

\* no command has been run on the session yet
Fresh == command = None

NextCmd ==
    \/ Fresh /\ \E c \in LightCommands : LightRunCommand(c)
    \/ LightCmdRead
    \/ Fresh /\ \E c \in McuCommands : AirRunCommand(c)
    \/ AirCmdRead

SpecCmd == InitCmd /\ [][NextCmd]_vars

\* the polling scenario: a session used by its client (commands, read_event,
\* drop) while the receiving thread and the clock run
Init ==
    /\ InitSession
    /\ CodecIdle
    /\ DisplayIdle
    /\ SampleIdle
    /\ Created
    /\ phase = 0
    /\ framesLeft = MaxFrames
    /\ junkCap = MaxJunk

Next ==
    \/ \E c \in LightCommands : LightRunCommand(c)
    \/ LightCmdRead
    \/ LightReadEvent
    \/ LightHeartbeat
    \/ LightSlotCheck
    \/ LightLiveness
    \/ LightDrain
    \/ DropSession
    \/ ThreadCheck
    \/ ThreadRead
    \/ Tick
    \/ \E c \in McuCommands : AirRunCommand(c)
    \/ AirCmdRead
    \/ AirReadEvent
    \/ AirReadMcu
    \/ AirImuRead

Spec == Init /\ [][Next]_vars

\* the heartbeat scenario: a NrealLight session whose client only polls, on a
\* control channel that sends nothing, while the receiving thread and the clock
\* run
InitBeat ==
    /\ InitSession
    /\ family = "light"
    /\ CodecIdle
    /\ DisplayIdle
    /\ SampleIdle
    /\ Created
    /\ phase = 0
    /\ framesLeft = 0
    /\ junkCap = BeatJunk

NextBeat ==
    \/ LightReadEvent
    \/ LightHeartbeat
    \/ LightSlotCheck
    \/ LightLiveness
    \/ LightDrain
    \/ ThreadCheck
    \/ ThreadRead
    \/ TickTo(BeatClock)

SpecBeat == InitBeat /\ [][NextBeat]_vars

\* the classification scenario: a NrealLight session whose client runs
\* commands and polls, the device being at any point of its traffic cycle
InitClass ==
    /\ InitSession
    /\ family = "light"
    /\ CodecIdle
    /\ DisplayIdle
    /\ SampleIdle
    /\ Created
    /\ phase \in 0..(Len(LightTraffic) - 1)
    /\ framesLeft = ClassFrames
    /\ junkCap = 0

NextClass ==
    \/ \E c \in LightCommands : LightRunCommand(c)
    \/ LightCmdRead
    \/ LightReadEvent
    \/ LightHeartbeat
    \/ LightSlotCheck
    \/ LightLiveness
    \/ LightDrain

SpecClass == InitClass /\ [][NextClass]_vars

\* the device has delivered no frame to the session yet
Untouched == command = None /\ arrived = 0

\* the queueing scenario: the first command the device answers with frames,
\* with frames enough to exhaust its attempts, and the polling that follows it
InitKeep ==
    /\ InitSession
    /\ CodecIdle
    /\ DisplayIdle
    /\ SampleIdle
    /\ Created
    /\ phase = 0
    /\ framesLeft = CmdFrames
    /\ junkCap = 0

NextKeep ==
    \/ Untouched /\ \E c \in LightCommands : LightRunCommand(c)
    \/ LightCmdRead
    \/ LightReadEvent
    \/ LightHeartbeat
    \/ LightSlotCheck
    \/ LightLiveness
    \/ LightDrain
    \/ Untouched /\ \E c \in McuCommands : AirRunCommand(c)
    \/ AirCmdRead
    \/ AirReadEvent
    \/ AirReadMcu
    \/ AirImuRead

SpecKeep == InitKeep /\ [][NextKeep]_vars

\* the HID polling scenario: a NrealAir session whose client runs commands and
\* polls, the MCU being at any point of its traffic cycle
InitAir ==
    /\ InitSession
    /\ family = "air"
    /\ CodecIdle
    /\ DisplayIdle
    /\ SampleIdle
    /\ Created
    /\ phase \in 0..(Len(McuTraffic) - 1)
    /\ framesLeft = AirFrames
    /\ junkCap = MaxJunk

NextAir ==
    \/ \E c \in McuCommands : AirRunCommand(c)
    \/ AirCmdRead
    \/ AirReadEvent
    \/ AirReadMcu
    \/ AirImuRead

SpecAir == InitAir /\ [][NextAir]_vars

\* bytes that matter to the codecs: NUL, ETX, ':', 'x' and 0xff
CodecBytes == {0, ETX, COLON, 120, 255}

\* the payloads handed to serialize: all short ones over CodecBytes, and long
\* ones of 'x', ending in 'x' or in ':'
CodecPayloads ==
    UNION { [1..n -> CodecBytes] : n \in 0..CodecShort }
    \cup { [i \in 1..n |-> IF i < n THEN 120 ELSE b] :
             n \in CodecLongFrom..CodecLong, b \in {120, COLON} }

\* the packets handed to serialize, with the codec they are for
CodecInputs ==
    { [codec |-> "text", pkt |-> LightFrame(c, i, d)] :
        c \in {0, ETX, 53, COLON}, i \in {ETX, COLON, 75, 255}, d \in CodecPayloads }
    \cup { [codec |-> "mcu", pkt |-> McuFrame(i, d)] :
             i \in {0, 7, MCU_KEY_ID, 65535}, d \in CodecPayloads }
    \cup { [codec |-> "imu", pkt |-> [cmd_id |-> i, data |-> d]] :
             i \in {0, 25, 255}, d \in CodecPayloads }

\* `packet.serialize()`
PacketSerialize ==
    /\ cin.codec = "text"
    /\ cwire = Unset
    /\ cwire' = LightSerialize(cin.pkt)
    /\ UNCHANGED <<sessionVars, creationVars, displayVars, sampleVars, cin, cout>>

\* `Packet::deserialize(&result)` on the buffer serialize returned
PacketDeserialize ==
    /\ cin.codec = "text"
    /\ cwire.kind = "some"
    /\ cout = Unset
    /\ cout' = LightDeserialize(cwire.val)
    /\ UNCHANGED <<sessionVars, creationVars, displayVars, sampleVars, cin, cwire>>

McuPacketSerialize ==
    /\ cin.codec = "mcu"
    /\ cwire = Unset
    /\ cwire' = McuSerialize(cin.pkt)
    /\ UNCHANGED <<sessionVars, creationVars, displayVars, sampleVars, cin, cout>>

McuPacketDeserialize ==
    /\ cin.codec = "mcu"
    /\ cwire.kind = "some"
    /\ cout = Unset
    /\ cout' = McuDeserialize(cwire.val)
    /\ UNCHANGED <<sessionVars, creationVars, displayVars, sampleVars, cin, cwire>>

ImuPacketSerialize ==
    /\ cin.codec = "imu"
    /\ cwire = Unset
    /\ cwire' = ImuSerialize(cin.pkt)
    /\ UNCHANGED <<sessionVars, creationVars, displayVars, sampleVars, cin, cout>>

ImuPacketDeserialize ==
    /\ cin.codec = "imu"
    /\ cwire.kind = "some"
    /\ cout = Unset
    /\ cout' = ImuDeserialize(cwire.val)
    /\ UNCHANGED <<sessionVars, creationVars, displayVars, sampleVars, cin, cwire>>

\* the codec runs: one packet serialized, and the buffer deserialized
InitCodec ==
    /\ InitSession
    /\ Created
    /\ phase = 0
    /\ framesLeft = 0
    /\ junkCap = 0
    /\ cin \in CodecInputs
    /\ family = (IF cin.codec = "text" THEN "light" ELSE "air")
    /\ cwire = Unset
    /\ cout = Unset
    /\ DisplayIdle
    /\ SampleIdle

NextCodec ==
    \/ PacketSerialize
    \/ PacketDeserialize
    \/ McuPacketSerialize
    \/ McuPacketDeserialize
    \/ ImuPacketSerialize
    \/ ImuPacketDeserialize

SpecCodec == InitCodec /\ [][NextCodec]_vars

\* a raw buffer of the HID-family sensor device's layout
ImuRaw(head, length, cmd_id, data) ==
    Pad(<<head, 0, 0, 0, 0, length % 256, length \div 256, cmd_id>> \o data, BUF_LEN)

\* the bytes a device puts in a buffer's payload area: all zero, or all different
AreaFills == { [i \in 1..IMU_DATA_LEN |-> 0], [i \in 1..IMU_DATA_LEN |-> i + 100] }

\* the values of a buffer's length field: around the overheads (3, 17), around
\* the end of the payload areas (59), and beyond one byte
DecodeLengths == {0, 2, 3, 4, 16, 17, 18, 58, 59, 60, 255, 256, 273, 65535}

\* the buffers a transfer can deliver to the binary codecs, with what the
\* device put in them
DecodeInputs ==
    { [codec |-> "mcu", head |-> h, length |-> l, cmd_id |-> MCU_KEY_ID,
       area |-> SubSeq(a, 1, MCU_DATA_LEN)] :
        h \in {MCU_HEAD, IMU_HEAD, 0}, l \in DecodeLengths, a \in AreaFills }
    \cup { [codec |-> "imu", head |-> h, length |-> l, cmd_id |-> 25, area |-> a] :
             h \in {MCU_HEAD, IMU_HEAD, 0}, l \in DecodeLengths, a \in AreaFills }

\* the buffer of such an input
DecodeBuffer(d) ==
    IF d.codec = "mcu" THEN McuRaw(d.head, d.length, d.cmd_id, d.area)
    ELSE ImuRaw(d.head, d.length, d.cmd_id, d.area)

\* the decoding of received buffers: deserialize applied to a buffer of the
\* device
InitDecode ==
    /\ InitSession
    /\ Created
    /\ family = "air"
    /\ phase = 0
    /\ framesLeft = 0
    /\ junkCap = 0
    /\ cin \in DecodeInputs
    /\ cwire = Some(DecodeBuffer(cin))
    /\ cout = Unset
    /\ DisplayIdle
    /\ SampleIdle

NextDecode ==
    \/ McuPacketDeserialize
    \/ ImuPacketDeserialize

SpecDecode == InitDecode /\ [][NextDecode]_vars

Fill(n, b) == [i \in 1..n |-> b]

\* configurations of the OV580: 40 bytes, then "\n\n{G}\n\n" and a tail; no
\* "\n\n{" at all; one at offset 10 only; one in the last four bytes only;
\* text that is no JSON; a byte that is not UTF-8 after the document; no
\* "\n\n" after the document; a document without biases; nothing
LightBlobs ==
    { Fill(40, 120) \o <<10, 10, 123, 71, 125, 10, 10>> \o Fill(4, 120),
      Fill(50, 120),
      Fill(10, 120) \o <<10, 10, 123, 71, 125, 10, 10>> \o Fill(34, 120),
      Fill(41, 120) \o <<10, 10, 123>>,
      Fill(40, 120) \o <<10, 10, 123, 33, 10, 10>> \o Fill(4, 120),
      Fill(40, 120) \o <<10, 10, 123, 71, 125, 10, 10, 255>> \o Fill(3, 120),
      Fill(40, 120) \o <<10, 10, 123, 71, 125>> \o Fill(4, 120),
      Fill(40, 120) \o <<10, 10, 123, 78, 125, 10, 10>> \o Fill(4, 120),
      <<>> }

\* configurations of the HID family's sensor device: a document, short and
\* long; a document without biases; text that is no JSON; a byte that is not
\* UTF-8; nothing; a document and one byte after it
AirBlobs ==
    { <<123, 71, 125>>,
      <<123, 71, 125>> \o Fill(40, 32),
      <<123, 71, 125, 120>>,
      <<123, 78, 125>>,
      <<123, 33>>,
      <<255>>,
      <<>> }

\* the lengths that device announces for configuration b: its length, one
\* byte less, one byte more
Announcements(b) == { n \in {Len(b) - 1, Len(b), Len(b) + 1} : n >= 0 }

\* the creation scenario: new() is called, the devices present; the sensor
\* device holds one of the configurations and streams or not
InitNew ==
    /\ family \in Families
    /\ pc = "idle"
    /\ command = None
    /\ attempt = 0
    /\ junk = 0
    /\ pending = <<>>
    /\ ret = None
    /\ clock = 0
    /\ last_heartbeat = 0
    /\ slot = None
    /\ strong = 1
    /\ tpc = "none"
    /\ arrived = 0
    /\ phase = 0
    /\ junkCap = 0
    /\ reports = 0
    /\ framesLeft = NewFrames
    /\ queue0 = <<>>
    /\ got = <<>>
    /\ junkRun = 0
    /\ junkBefore = 0
    /\ timeouts = 0
    /\ didRead = FALSE
    /\ writes = 0
    /\ wfail = FALSE
    /\ lastWrite = "none"
    /\ beatAt = -1
    /\ lastTaken = 0
    /\ motions = 0
    /\ tcause = "none"
    /\ wasDisconnected = FALSE
    /\ lastRead = "none"
    /\ calledDue = FALSE
    /\ lastMotion = 0
    /\ imuReads = 0
    /\ lastSensor = "none"
    /\ CodecIdle
    /\ DisplayIdle
    /\ SampleIdle
    /\ npc = "open"
    /\ nret = None
    /\ steps = <<>>
    /\ sensorLog = <<>>
    /\ stream \in BOOLEAN
    /\ blob \in (IF family = "light" THEN LightBlobs ELSE AirBlobs)
    /\ announced \in (IF family = "light" THEN {0} ELSE Announcements(blob))
    /\ config = <<>>
    /\ biases = "zero"

NextNew ==
    \/ NewOpen
    \/ \E k \in 1..3 : NewHandshake(k)
    \/ LightCmdRead
    \/ NewHandshakeDone
    \/ SensorOpen
    \/ StreamOff
    \/ ConfigStart
    \/ ConfigChunk
    \/ ConfigParse
    \/ StreamOn
    \/ Spawn
    \/ NewSerial
    \/ AirCmdRead
    \/ NewSerialDone
    \/ NewReturn

SpecNew == InitNew /\ [][NextNew]_vars

\* the receiving thread is scheduled: it is not starved forever, and its
\* transfers end (each has a 250 ms timeout)
SpecLive == Spec /\ WF_vars(ThreadCheck) /\ WF_vars(ThreadRead)

-----------------------------------------------------------------------------
(* NrealAir: get_display_mode and set_display_mode *)

\* the mode bytes the glasses may hold at first: those of get_display_mode's
\* table, and two it does not know
PanelBytes == {0, 1, 3, 4, 5, 8, 9, 10, 11, 12}

\* the variants of DisplayMode, as set_display_mode's match lists them
DisplayModes ==
    { "SameOnBoth", "HalfSBS", "Stereo", "HighRefreshRate", "HighRefreshRateSBS" }

\* set_display_mode: `display_mode_byte`
DisplayModeByte(m) ==
    CASE m = "SameOnBoth" -> 1
      [] m = "HalfSBS" -> 8
      [] m = "Stereo" -> 3
      [] m = "HighRefreshRate" -> 11
      [] m = "HighRefreshRateSBS" -> 9

\* get_display_mode: the table of `match result.get(1)`, None for the `_` arm
DisplayModeOf(b) ==
    CASE b = 1 -> Some("SameOnBoth")
      [] b = 3 -> Some("Stereo")
      [] b = 4 -> Some("HighRefreshRate")
      [] b = 5 -> Some("SameOnBoth")
      [] b = 8 -> Some("HalfSBS")
      [] b = 9 -> Some("HighRefreshRate")
      [] b = 10 -> Some("HighRefreshRate")
      [] b = 11 -> Some("HighRefreshRate")
      [] OTHER -> None

\* get_display_mode after `run_command(..)?`
GetDisplayModeResult(result) ==
    IF result.kind = "err" THEN [call |-> "get", kind |-> "err", err |-> result.err]
    ELSE IF Len(result.data) < 2 \/ DisplayModeOf(result.data[2]) = None
    THEN [call |-> "get", kind |-> "err", err |-> "unknown_mode"]
    ELSE [call |-> "get", kind |-> "ok", mode |-> DisplayModeOf(result.data[2]).val]

\* set_display_mode after `run_command(..)?`: `result.first() == Some(&0)`
SetDisplayModeResult(result) ==
    IF result.kind = "err" THEN [call |-> "set", kind |-> "err", err |-> result.err]
    ELSE IF Len(result.data) >= 1 /\ result.data[1] = 0
    THEN [call |-> "set", kind |-> "ok"]
    ELSE [call |-> "set", kind |-> "err", err |-> "unsuccessful"]

\* how a whole run_command can go: its write, the unrelated frames it reads
\* and queues before its last transfer, and how that last transfer ends
CommandRuns ==
    { [write |-> w, skipped |-> 0, end |-> "none"] : w \in {"io", "timeout"} }
    \cup { [write |-> "ok", skipped |-> k, end |-> e] :
             k \in 0..Min(MaxSkipped, framesLeft),
             e \in {"io", "packet_timeout", "malformed"} }
    \cup { [write |-> "ok", skipped |-> k, end |-> "reply"] :
             k \in 0..Min(MaxSkipped, framesLeft - 1) }

\* whether the command reached the glasses
Reached(run) == run.write = "ok"

\* what run_command returns for that run, answer being the reply's payload
CommandResult(run, answer) ==
    IF run.write # "ok" THEN Err(run.write)
    ELSE IF run.end # "reply" THEN Err(run.end)
    ELSE [kind |-> "ok", data |-> answer]

\* the unrelated frames of that run, as run_command queues them
Skipped(run) ==
    [ i \in 1..run.skipped |->
        [pkt |-> Traffic[((arrived + i - 1 + phase) % Len(Traffic)) + 1],
         seq |-> arrived + i] ]

\* what a whole run_command leaves behind in the session and on the channel
CommandRan(run) ==
    /\ pending' = pending \o Skipped(run)
    /\ arrived' = arrived + run.skipped + (IF run.end = "reply" THEN 1 ELSE 0)
    /\ framesLeft' = framesLeft - run.skipped - (IF run.end = "reply" THEN 1 ELSE 0)
    /\ UNCHANGED <<family, pc, command, attempt, junk, ret, last_heartbeat, slot, strong,
                   tpc, clock, phase, junkCap, reports, queue0, got, junkRun, junkBefore,
                   timeouts, didRead, writes, wfail, lastTaken, motions, tcause,
                   wasDisconnected, lastWrite, beatAt, lastRead, calledDue, lastMotion,
                   imuVars>>

\* NrealAir::set_display_mode(m); glasses that take the mode store the byte
\* and answer 0, glasses that refuse it answer 1
SetDisplayMode(m) ==
    /\ family = "air"
    /\ pc = "idle"
    /\ \E run \in CommandRuns, taken \in BOOLEAN :
       /\ CommandRan(run)
       /\ panel' = IF Reached(run) /\ taken THEN DisplayModeByte(m) ELSE panel
       /\ asked' = IF Reached(run) /\ taken THEN Some(m) ELSE asked
       /\ dret' = SetDisplayModeResult(CommandResult(run, IF taken THEN <<0>> ELSE <<1>>))
    /\ UNCHANGED <<codecVars, sampleVars, creationVars>>

\* NrealAir::get_display_mode(); the glasses answer with a status byte and
\* the mode byte they hold, or with the status byte alone
GetDisplayMode ==
    /\ family = "air"
    /\ pc = "idle"
    /\ \E run \in CommandRuns, whole \in BOOLEAN :
       /\ CommandRan(run)
       /\ dret' = GetDisplayModeResult(CommandResult(run, IF whole THEN <<0, panel>> ELSE <<0>>))
    /\ UNCHANGED <<panel, asked, codecVars, sampleVars, creationVars>>

\* the display scenario: a NrealAir session whose client sets and gets the
\* display mode, the glasses being in any mode at first
InitDisplay ==
    /\ InitSession
    /\ family = "air"
    /\ CodecIdle
    /\ SampleIdle
    /\ Created
    /\ phase = 0
    /\ framesLeft = DisplayFrames
    /\ junkCap = 0
    /\ panel \in PanelBytes
    /\ asked = None
    /\ dret = None

NextDisplay ==
    \/ \E m \in DisplayModes : SetDisplayMode(m)
    \/ GetDisplayMode

SpecDisplay == InitDisplay /\ [][NextDisplay]_vars

-----------------------------------------------------------------------------
(* The normalization of a sensor report: Ov580::receive_one_report and
   ImuDevice::parse_report *)

\* `raw * mul / div`, for the scales the reports of the model carry, which
\* divide exactly
Scaled(v, scale) == [ i \in 1..3 |-> (v[i] * scale[1]) \div scale[2] ]

\* `read_u64::<LittleEndian>()? / 1000`
Timestamp(ticks) == ticks \div 1000

\* parse_report's axes without the exchange of y and z
AirAxesUnswapped(v, bias) == << -v[1] - bias[1], v[2] + bias[2], v[3] + bias[3] >>

\* parse_report: the three components of Vector3::new(..), the factor of the
\* unit left out
AirAxes(v, bias) == << -v[1] - bias[1], v[3] + bias[2], v[2] + bias[3] >>

\* receive_one_report: x, y and z of SensorData3D, the factor of the unit left
\* out
LightAxes(v, bias) == << v[1] - bias[1], -v[2] + bias[2], -v[3] + bias[3] >>

\* SensorData3D { timestamp, x, y, z }
SensorData3D(t, v) == [timestamp |-> t, x |-> v[1], y |-> v[2], z |-> v[3]]

\* receive_one_report on a report whose first byte is 1: Ok(Some((acc, gyro)))
LightSample(r) ==
    Some([acc  |-> SensorData3D(Timestamp(r.acc_ticks),
                                LightAxes(Scaled(r.acc, r.acc_scale), r.accel_bias)),
          gyro |-> SensorData3D(Timestamp(r.ticks),
                                LightAxes(Scaled(r.gyro, r.gyro_scale), r.gyro_bias))])

\* parse_report: Ok(GlassesEvent::AccGyro { accelerometer, gyroscope, timestamp })
AirSample(r) ==
    Event("AccGyro",
          [accelerometer |-> AirAxes(Scaled(r.acc, r.acc_scale), r.accel_bias),
           gyroscope     |-> AirAxes(Scaled(r.gyro, r.gyro_scale), r.gyro_bias),
           timestamp     |-> Timestamp(r.ticks)])

\* raw readings of one axis
RawValues == {-2, 4, 6}

\* the raw readings of the gyroscope: every triple
GyroReadings == { <<x, y, z>> : x \in RawValues, y \in RawValues, z \in RawValues }

\* the raw readings of the accelerometer
AccReadings == { <<4, -2, 6>>, <<-2, -2, 4>>, <<6, 4, -2>> }

\* the multiplier and the divisor of a report
Scales == { <<1, 1>>, <<2, 1>>, <<2, 2>> }

\* the biases of a driver: none, or those of its configuration
GyroBiases == { <<0, 0, 0>>, <<1, -3, 5>> }
AccelBiases == { <<0, 0, 0>>, <<-7, 9, 11>> }

\* values of the device's tick counter
TickValues == {0, 999, 1000, 1999, 123456}

\* the reports handed to the drivers; the text family's report has a tick
\* counter for each sensor
Reports ==
    { [family |-> f, ticks |-> t, acc_ticks |-> t + d, gyro |-> g, gyro_scale |-> s,
       acc |-> a, acc_scale |-> <<1, 1>>, gyro_bias |-> gb, accel_bias |-> ab] :
        f \in Families, t \in TickValues, d \in {0}, g \in GyroReadings, s \in Scales,
        a \in AccReadings, gb \in GyroBiases, ab \in AccelBiases }
    \cup
    { [family |-> "light", ticks |-> t, acc_ticks |-> t + 1500, gyro |-> <<4, -2, 6>>,
       gyro_scale |-> <<1, 1>>, acc |-> a, acc_scale |-> s, gyro_bias |-> <<0, 0, 0>>,
       accel_bias |-> ab] :
        t \in TickValues, s \in Scales, a \in AccReadings, ab \in AccelBiases }

\* Ov580::receive_one_report, from `let mut reader` on
Ov580Normalize ==
    /\ report # Unset
    /\ report.family = "light"
    /\ sample = Unset
    /\ sample' = LightSample(report)
    /\ UNCHANGED <<sessionVars, codecVars, displayVars, creationVars, report>>

\* ImuDevice::parse_report
ImuParseReport ==
    /\ report # Unset
    /\ report.family = "air"
    /\ sample = Unset
    /\ sample' = AirSample(report)
    /\ UNCHANGED <<sessionVars, codecVars, displayVars, creationVars, report>>

\* the normalization runs: one report handed to the driver of its family
InitSample ==
    /\ InitSession
    /\ Created
    /\ CodecIdle
    /\ DisplayIdle
    /\ phase = 0
    /\ framesLeft = 0
    /\ junkCap = 0
    /\ report \in Reports
    /\ family = report.family
    /\ sample = Unset

NextSample ==
    \/ Ov580Normalize
    \/ ImuParseReport

SpecSample == InitSample /\ [][NextSample]_vars


-----------------------------------------------------------------------------
(* Properties of run_command, checked under SpecCmd *)

\* a frame, as the device sent it, is an answer to the command being run
Correlating(f) ==
    IF family = "light"
    THEN f.category = command.category + 1 /\ f.cmd_id = command.cmd_id
    ELSE f.cmd_id = command.cmd_id

\* the frames the device delivered in this call, the last one left out
Earlier == Front(got)

NoneCorrelates(s) == \A i \in 1..Len(s) : ~Correlating(s[i].pkt)

Ok(data) == [kind |-> "ok", data |-> data]

\* C1: on a session whose queue was empty, when the well-formed frames the device
\* delivers to run_command are N frames that do not correlate (N <= 63) and then
\* one that does, run_command returns that frame's payload and the queue holds
\* exactly the N frames, as they were sent and in the order they arrived.
C1_Correlation ==
    (/\ command # None
     /\ Len(got) > 0
     /\ NoneCorrelates(Earlier)
     /\ Correlating(Last(got).pkt))
    => /\ Len(Earlier) <= 63
       /\ pc = "idle"
       /\ ret = Ok(Last(got).pkt.data)
       /\ pending = queue0 \o Earlier

C1_Witness ==
    /\ queue0 = <<>>
    /\ Len(got) = 64
    /\ Correlating(Last(got).pkt)
    /\ ret = Ok(Last(got).pkt.data)
    /\ Len(pending) = 63

\* C3: run_command reads at most 64 well-formed frames; it fails with "too many
\* unrelated" exactly when 64 frames were read and none correlates (a 65th frame
\* is never read), and with 63 such frames and then an answer it succeeds.
C3_Exhaustion ==
    command # None =>
       /\ Len(got) <= 64
       /\ (ret = Err("unrelated")) <=> (Len(got) = 64 /\ NoneCorrelates(got))
       /\ ret = Err("unrelated") => pc = "idle" /\ attempt = 64
       /\ (Len(got) = 64 /\ NoneCorrelates(Earlier) /\ Correlating(Last(got).pkt))
          => ret.kind = "ok"

C3_Witness ==
    /\ ret = Err("unrelated")
    /\ Len(got) = 64
    /\ framesLeft >= 1

\* C4: (text family) run_command goes on waiting through up to 7 malformed
\* buffers in a row, and an answer that follows them is returned; the 8th in a
\* row ends it with "too many junk packets"; nothing malformed is ever queued.
C4_JunkTolerance ==
    (family = "light" /\ command # None) =>
       /\ junkRun <= 8
       /\ junkRun \in 1..7 => pc = "cmd"
       /\ (junkRun = 8) <=> (ret = Err("junk"))
       /\ ret = Err("junk") => pc = "idle"
       /\ (Len(got) > 0 /\ junkBefore <= 7 /\ Correlating(Last(got).pkt))
          => ret = Ok(Last(got).pkt.data)
       /\ \E n \in 0..Len(got) : pending = queue0 \o SubSeq(got, 1, n)

C4_Witness ==
    /\ family = "light"
    /\ junkBefore = 7
    /\ Len(got) > 0
    /\ Correlating(Last(got).pkt)
    /\ ret = Ok(Last(got).pkt.data)

\* C6 as the specification states it: a timeout does not end run_command before
\* its 64 attempts are used up.
C6_TimeoutNotFatal ==
    (command # None /\ timeouts >= 1 /\ pc = "idle") => attempt + timeouts >= 64

\* C6, as amended: the first timeout of a transfer ends run_command at once, with
\* the timeout error of the family, whatever the attempt; the frames queued
\* before it stay queued.
C6_TimeoutFatal ==
    (command # None /\ timeouts >= 1) =>
       /\ timeouts = 1
       /\ pc = "idle"
       /\ ret = Err(IF family = "light" THEN "timeout" ELSE "packet_timeout")
       /\ pending = queue0 \o got

C6_Witness ==
    /\ command # None
    /\ timeouts = 1
    /\ Len(pending) >= 1
    /\ attempt < 63
    /\ ret.kind = "err"

-----------------------------------------------------------------------------
(* Properties of the polling scenario, checked under Spec *)

RECURSIVE Ascending(_)
\* the arrival stamps of a queue grow from head to tail
Ascending(q) ==
    IF Len(q) < 2 THEN TRUE
    ELSE q[1].seq < q[2].seq /\ Ascending(Tail(q))

InReadEvent == pc \in {"ev_hb", "ev_slot", "ev_alive", "ev_drain", "mcu", "imu"}

Discrete(r) == r.kind = "event" /\ r.ev # "AccGyro"

\* the queue holds frames in arrival order, all of them newer than the last
\* frame read_event consumed
C2_QueueInOrder ==
    /\ Ascending(pending)
    /\ \A i \in 1..Len(pending) :
          pending[i].seq > lastTaken /\ pending[i].seq <= arrived

\* one step of read_event at its drain point: with a frame pending it takes the
\* head of the queue and leaves the control channel alone
C2_HeadFirst ==
    (pc \in {"ev_drain", "mcu"} /\ Len(pending) > 0 /\ pc' # pc)
    => /\ pending' = Tail(pending)
       /\ lastTaken' = Head(pending).seq
       /\ arrived' = arrived
       /\ didRead' = didRead

\* frames are consumed, and discrete events returned, in arrival order
C2_Forward ==
    /\ lastTaken' # lastTaken => lastTaken' > lastTaken
    /\ (Discrete(ret') /\ ret' # ret) => ret'.seq = lastTaken' /\ lastTaken' > lastTaken

\* run_command queues what it does not return at the tail, in arrival order
C2_TailOnly ==
    (pc = "cmd" /\ pending' # pending)
    => /\ Len(got') = Len(got) + 1
       /\ pending' = Append(pending, Last(got'))

\* C2: over any sequence of run_command and read_event calls on a session,
\* read_event returns discrete events in the order their frames arrived:
\* run_command appends the frames it does not return at the tail of the queue,
\* read_event takes the head of the queue first and reads the control channel
\* only when the queue is empty.
C2_EventOrder ==
    /\ []C2_QueueInOrder
    /\ [][C2_HeadFirst /\ C2_Forward /\ C2_TailOnly]_vars

C2_Witness ==
    /\ Len(queue0) = 2
    /\ Len(pending) = 1
    /\ Discrete(ret)
    /\ ret.seq = queue0[1].seq
    /\ pc = "idle"

C7_WriteOnce ==
    command # None =>
       /\ writes <= 1
       /\ (pc = "cmd" \/ didRead) => writes = 1 /\ ~wfail
       /\ wfail => /\ pc \in {"idle", "dropped"}
                   /\ ret = Err(lastWrite)
                   /\ lastWrite \in {"io", "timeout"}
                   /\ ~didRead
                   /\ got = <<>>
                   /\ pending = queue0

C7_Witness ==
    /\ command # None
    /\ wfail
    /\ writes = 1
    /\ Len(pending) >= 1
    /\ ret = Err("io")

\* the slot check of read_event with a value in the slot
C8_SlotWins ==
    (family = "light" /\ pc = "ev_slot" /\ slot.kind = "some" /\ pc' # pc)
    => /\ pc' = "idle"
       /\ ret' = Event("AccGyro", slot.val)
       /\ slot' = None
       /\ pending' = pending
       /\ arrived' = arrived
       /\ didRead' = didRead

\* read_event gets to the queue and the control channel only past a slot check
\* that found the slot empty
C8_OnlyPastEmptySlot ==
    /\ (family = "light" /\ pc' = "ev_alive" /\ pc # "ev_alive")
       => pc = "ev_slot" /\ slot = None
    /\ (family = "light" /\ pc' = "ev_drain" /\ pc # "ev_drain") => pc = "ev_alive"
    /\ (family = "light" /\ InReadEvent /\ (Discrete(ret') \/ pending' # pending
                                             \/ didRead' # didRead))
       => pc = "ev_drain"

\* C8: (text family) a value in the slot at the slot check is what read_event
\* returns, as a motion event, with the queue and the control channel untouched;
\* so while the slot is refilled before every poll no discrete event is returned,
\* whatever is pending.
C8_SlotPriority == [][C8_SlotWins /\ C8_OnlyPastEmptySlot]_vars

C8_Witness ==
    /\ family = "light"
    /\ pc = "idle"
    /\ ret.kind = "event"
    /\ ret.ev = "AccGyro"
    /\ Len(pending) >= 1
    /\ pending = queue0
    /\ ~didRead

\* the slot holds nothing or the latest pair the thread decoded
C9_LatestOnly == (family = "light" /\ slot.kind = "some") => slot.val = reports

\* the motion event of read_event is the latest pair, and taking it empties the slot
C9_Take ==
    (family = "light" /\ ret' # ret /\ ret'.kind = "event" /\ ret'.ev = "AccGyro")
    => /\ ret'.arg = reports
       /\ slot = Some(reports)
       /\ slot' = None

\* C9: the slot holds one pair at most; of two pairs written before the session
\* reads, read_event returns the second and the first is never returned; taking
\* the value leaves the slot empty.
C9_Overwrite == []C9_LatestOnly /\ [][C9_Take]_vars

C9_Witness ==
    /\ family = "light"
    /\ ret = Event("AccGyro", 2)
    /\ motions = 1
    /\ slot = None

\* the thread leaves its loop on a reference count other than 2 or on a failed
\* read, and in no other way
C10_ExitCauses ==
    (tpc' = "exited" /\ tpc # "exited")
    => \/ tpc = "check" /\ strong # 2 /\ tcause' = "count"
       \/ tpc = "read" /\ tcause' \in {"timeout", "io"} /\ slot' = slot

\* once the session is dropped the thread begins no read
C10_NoNewRead == (pc = "dropped" /\ tpc' = "read") => tpc = "read"

\* C10: (text family) after the session is dropped the thread ends by itself;
\* after the drop it does at most the one read it was about to do; it leaves
\* its loop only on a failed read or on a reference count other than 2.
C10_Shutdown ==
    /\ (family = "light" /\ pc = "dropped") ~> (tpc = "exited")
    /\ [][C10_ExitCauses /\ C10_NoNewRead]_vars

C10_Witness ==
    /\ family = "light"
    /\ pc = "dropped"
    /\ tpc = "exited"
    /\ tcause = "count"
    /\ strong = 0

-----------------------------------------------------------------------------
(* C11: the Disconnected error *)

\* the liveness check is reached only past a slot check that found the slot
\* empty
C11_PastEmptySlot ==
    (pc' = "ev_alive" /\ pc # "ev_alive") => (pc = "ev_slot" /\ slot = None)

\* the liveness check fails exactly when the thread has exited
C11_WhenExited ==
    /\ (ret' = Err("disconnected") /\ ret # ret')
       => (family = "light" /\ pc = "ev_alive" /\ tpc = "exited")
    /\ (pc = "ev_alive" /\ pc' # pc)
       => (ret' = Err("disconnected") <=> tpc = "exited")

\* after a Disconnected no read_event call returns an event
C11_NoEventAfter ==
    (wasDisconnected /\ ret' # ret) => ret'.kind # "event"

\* C11: (text family) read_event returns Disconnected exactly when the thread
\* has exited and the slot was empty at the slot check, never while the thread
\* is alive; once Disconnected has been returned, every later read_event call
\* fails and returns no event, whatever is pending.
C11_Disconnected ==
    [][C11_PastEmptySlot /\ C11_WhenExited /\ C11_NoEventAfter]_vars

\* the detection alone: what of C11 the code keeps
C11_Detection == [][C11_PastEmptySlot /\ C11_WhenExited]_vars

-----------------------------------------------------------------------------
(* C12: heartbeat timing *)

\* the step of read_event at the top of its loop
BeatStep == family = "light" /\ pc = "ev_hb" /\ pc' # pc

\* a heartbeat is written exactly when more than 250 ms have elapsed since the
\* recorded time, once, and the time recorded is then the time sampled
C12_WrittenWhenDue ==
    BeatStep =>
       /\ (writes' = writes + 1) <=> (clock - last_heartbeat > 250)
       /\ writes' \in {writes, writes + 1}
       /\ (writes' = writes + 1 /\ lastWrite' = "ok") => last_heartbeat' = clock
       /\ writes' = writes => last_heartbeat' = last_heartbeat

\* a heartbeat frame is written by that step only, and more than 250 ms after
\* the one before it and after the session's creation
C12_Apart ==
    beatAt' # beatAt =>
       /\ BeatStep
       /\ beatAt' = clock
       /\ clock > 250
       /\ beatAt >= 0 => clock - beatAt > 250

-----------------------------------------------------------------------------
(* C13: the heartbeat's write *)

\* the step of read_event that writes a heartbeat
BeatWrite == BeatStep /\ writes' = writes + 1

\* no response to the heartbeat is read
C13_NoResponseAwaited ==
    BeatWrite => /\ arrived' = arrived
                 /\ didRead' = didRead
                 /\ lastRead' = lastRead
                 /\ pending' = pending

\* C13 as the specification has it: read_event waits for no response to the
\* heartbeat, a write that timed out is ignored and read_event goes on to the
\* slot check, and the last-heartbeat time is updated whatever the write's
\* outcome.
C13_FireAndForget ==
    [][/\ C13_NoResponseAwaited
       /\ BeatWrite => /\ lastWrite' = "timeout" => (pc' = "ev_slot" /\ ret' = None)
                       /\ last_heartbeat' = clock]_vars

\* C13: read_event waits for no response to the heartbeat; every error of its
\* write, a timeout included, is returned at once and the last-heartbeat time
\* stays as it was; after a successful write the time is updated and read_event
\* goes on to the slot check.
C13_WriteErrorsReturned ==
    [][/\ C13_NoResponseAwaited
       /\ BeatWrite =>
            /\ lastWrite' = "ok" => /\ pc' = "ev_slot"
                                    /\ ret' = None
                                    /\ last_heartbeat' = clock
            /\ lastWrite' # "ok" => /\ lastWrite' \in {"io", "timeout"}
                                    /\ pc' = "idle"
                                    /\ ret' = Err(lastWrite')
                                    /\ last_heartbeat' = last_heartbeat]_vars

\* a read_event call has returned the timeout of its heartbeat's write
C13_Witness ==
    /\ family = "light"
    /\ command = None
    /\ pc = "idle"
    /\ writes = 1
    /\ lastWrite = "timeout"
    /\ ret = Err("timeout")
    /\ clock - last_heartbeat > 250

-----------------------------------------------------------------------------
(* C14: the timeout of the polling read *)

\* the step of read_event that reads the control channel, nothing being queued
PollStep ==
    /\ family = "light"
    /\ pc = "ev_drain"
    /\ Len(pending) = 0
    /\ (pc' # pc \/ junk' # junk)

\* a read that timed out returns nothing and goes back to the heartbeat check
C14_TimeoutGoesRound ==
    (PollStep /\ lastRead' = "timeout")
    => /\ pc' = "ev_hb"
       /\ ret' = None
       /\ pending' = pending
       /\ motions' = motions

\* a read that failed otherwise ends the call with its error
C14_OtherErrorsReturned ==
    /\ (PollStep /\ lastRead' = "io") => (pc' = "idle" /\ ret' = Err("io"))
    /\ (PollStep /\ lastRead' = "junk" /\ junk + 1 = 8)
       => (pc' = "idle" /\ ret' = Err("junk"))

\* back at the heartbeat check after a read, the heartbeat is written when due
C14_StillBeating ==
    (BeatStep /\ didRead /\ clock - last_heartbeat > 250) => writes' = writes + 1

\* C14: (text family) when nothing is queued and the 1 ms read times out,
\* read_event returns no error and no event and re-enters its loop at the
\* heartbeat check, so a call idle for more than 250 ms keeps writing
\* heartbeats; any other error of the read is returned.
C14_PollTimeout ==
    [][C14_TimeoutGoesRound /\ C14_OtherErrorsReturned /\ C14_StillBeating]_vars

\* one call, its reads having timed out and the device silent, has written its
\* second heartbeat and read again
C14_Witness ==
    /\ family = "light"
    /\ pc = "ev_hb"
    /\ writes = 2
    /\ lastRead = "timeout"
    /\ arrived = 0
    /\ ret = None

-----------------------------------------------------------------------------
(* C15: the classification of a consumed frame *)

\* the step of read_event that consumes a frame
ConsumeStep == family = "light" /\ lastTaken' # lastTaken

\* the frame that step consumes: the head of the queue, or else the frame just
\* delivered, as the device sent it
Consumed == IF Len(pending) > 0 THEN pending[1].pkt ELSE Last(got').pkt

\* the bytes of s are hexadecimal digits, one at least
AsciiHex(s) ==
    /\ Len(s) > 0
    /\ \A i \in 1..Len(s) :
          s[i] \in (48..57) \cup (65..70) \cup (97..102)

DigitValue(b) == IF b <= 57 THEN b - 48 ELSE IF b <= 70 THEN b - 55 ELSE b - 87

RECURSIVE Pow16(_)
Pow16(n) == IF n = 0 THEN 1 ELSE 16 * Pow16(n - 1)

RECURSIVE HexSum(_, _)
HexSum(s, i) ==
    IF i > Len(s) THEN 0
    ELSE DigitValue(s[i]) * Pow16(Len(s) - i) + HexSum(s, i + 1)

\* the number a digit string writes in base 16
HexNumber(s) == HexSum(s, 1)

Is(f, category, cmd_id) == f.category = category /\ f.cmd_id = cmd_id

\* the mapping as the specification has it
Mapped(f) ==
    IF Is(f, 53, 75) /\ f.data = <<85, 80>> THEN Event("KeyPress", 0)
    ELSE IF Is(f, 53, 75) /\ f.data = <<68, 78>> THEN Event("KeyPress", 1)
    ELSE IF Is(f, 53, 80) /\ f.data = <<110, 101, 97, 114>> THEN Event("ProximityNear", 0)
    ELSE IF Is(f, 53, 80) /\ f.data = <<97, 119, 97, 121>> THEN Event("ProximityFar", 0)
    ELSE IF Is(f, 53, 76) /\ AsciiHex(f.data) THEN Event("AmbientLight", HexNumber(f.data))
    ELSE IF Is(f, 53, 83) THEN Event("VSync", 0)
    ELSE [kind |-> "discard"]

\* an ambient-light payload u16::from_str_radix accepts: hexadecimal digits, one
\* at least, after at most one '+', writing a number that fits 16 bits
AmbientDigits(s) == IF Len(s) > 0 /\ s[1] = 43 THEN Tail(s) ELSE s

AmbientValid(s) == AsciiHex(AmbientDigits(s)) /\ HexNumber(AmbientDigits(s)) <= 65535

\* the mapping with every ambient-light frame decided: an event or an error
MappedOrError(f) ==
    IF Is(f, 53, 76)
    THEN IF AmbientValid(f.data)
         THEN Event("AmbientLight", HexNumber(AmbientDigits(f.data)))
         ELSE Err("ambient")
    ELSE Mapped(f)

\* the step ends as m says: the event returned, the error returned, or the
\* frame dropped and the loop entered again, nothing returned
EndsAs(m) ==
    IF m.kind = "discard"
    THEN pc' = "ev_hb" /\ ret' = None
    ELSE /\ pc' = "idle"
         /\ ret'.kind = m.kind
         /\ m.kind = "event" => (ret'.ev = m.ev /\ ret'.arg = m.arg)
         /\ m.kind = "err" => ret'.err = m.err

\* the consumed frame leaves the queue, or was never in it
C15_OneFrame ==
    ConsumeStep => /\ pc = "ev_drain"
                   /\ pending' = IF Len(pending) > 0 THEN Tail(pending) ELSE pending

\* C15 as the specification has it: a consumed frame is mapped to its event,
\* any frame outside the mapping is discarded with no event and no error, and
\* a frame gives one event at most.
C15_Classification == [][C15_OneFrame /\ (ConsumeStep => EndsAs(Mapped(Consumed)))]_vars

\* C15: as above, but an ambient-light frame ('5','L') whose payload is not a
\* hexadecimal number of 16 bits ends read_event with an error, the frame
\* consumed.
C15_ClassificationOrError ==
    [][C15_OneFrame /\ (ConsumeStep => EndsAs(MappedOrError(Consumed)))]_vars

\* read_event has consumed the ambient-light frame "1F" from the queue, where a
\* command had put it
C15_Witness ==
    /\ family = "light"
    /\ pc = "idle"
    /\ ret.kind = "event"
    /\ ret.ev = "AmbientLight"
    /\ ret.arg = 31
    /\ Len(queue0) > 0
    /\ queue0[1].pkt.data = <<49, 70>>
    /\ didRead = FALSE

-----------------------------------------------------------------------------
(* C16, C17: the codecs' round trips *)

\* serialize has run on a packet of the codec
Serialized(codec) == cin # Unset /\ cin.codec = codec /\ cwire # Unset

\* deserialize has run on the buffer, and gave the packet back
RoundTrip == cout = Some(cin.pkt)

\* the buffer is the 64 bytes of a transfer
WholeBuffer == cwire.kind = "some" /\ Len(cwire.val) = 64

\* C16 as the specification has it: every category byte, cmd_id byte and
\* payload of 0..45 bytes serializes to a 64-byte buffer, and deserializing it
\* gives the same category, cmd_id and payload.
C16_TextRoundTrip ==
    (Serialized("text") /\ Len(cin.pkt.data) <= 45)
    => /\ WholeBuffer
       /\ cout # Unset => RoundTrip

\* no ':' and no ETX among the packet's bytes
PlainText(p) ==
    /\ p.category \notin {58, 3}
    /\ p.cmd_id \notin {58, 3}
    /\ \A i \in 1..Len(p.data) : p.data[i] \notin {58, 3}

\* C16: a payload of 0..45 bytes serializes to a 64-byte buffer whatever the
\* bytes; deserializing it gives the packet back when none of category, cmd_id
\* and the payload's bytes is ':' or ETX, and otherwise gives no packet or
\* another one.
C16_PlainTextRoundTrip ==
    (Serialized("text") /\ Len(cin.pkt.data) <= 45)
    => /\ WholeBuffer
       /\ cout # Unset => (RoundTrip <=> PlainText(cin.pkt))

\* a payload of 45 bytes has gone through serialize and deserialize
C16_Witness ==
    /\ Serialized("text")
    /\ Len(cin.pkt.data) = 45
    /\ PlainText(cin.pkt)
    /\ RoundTrip


\* the length field of a binary buffer
LengthField == U16At(cwire.val, 5)

\* C17: a McuPacket with a payload of 0..42 bytes and an ImuPacket with a
\* payload of 0..56 bytes serialize to a buffer whose length field is the
\* payload's length plus 17 (McuPacket) or plus 3 (ImuPacket), and
\* deserializing it gives the same cmd_id and payload.
C17_BinaryRoundTrip ==
    /\ (Serialized("mcu") /\ Len(cin.pkt.data) <= 42)
       => /\ WholeBuffer
          /\ LengthField = Len(cin.pkt.data) + 17
          /\ cout # Unset => RoundTrip
    /\ (Serialized("imu") /\ Len(cin.pkt.data) <= 56)
       => /\ WholeBuffer
          /\ LengthField = Len(cin.pkt.data) + 3
          /\ cout # Unset => RoundTrip

\* an ImuPacket with a payload of 56 bytes ending in ':' has gone through
\* serialize and deserialize
C17_Witness ==
    /\ Serialized("imu")
    /\ Len(cin.pkt.data) = 56
    /\ cin.pkt.data[56] = 58
    /\ cin.pkt.cmd_id = 255
    /\ RoundTrip
    /\ LengthField = 59

-----------------------------------------------------------------------------
(* C18, C19, C20: the creation of a session *)

Range(s) == { s[i] : i \in 1..Len(s) }

\* the steps that must have succeeded before new() returns a session
AllSteps ==
    IF family = "light"
    THEN <<"open", "h1", "h2", "h3", "sensor", "off", "cfg_start", "cfg_chunk",
           "parse", "on", "spawn">>
    ELSE <<"open", "sensor", "off", "cfg_start", "cfg_chunk", "parse", "on", "serial">>

\* the text of the document that starts at offset i + 2 of configuration b:
\* up to the next empty line, or to the end
DocumentAt(b, i) ==
    LET rest == SubSeq(b, i + 3, Len(b))
        end == BlankLineFrom(rest, 1)
    IN  IF end = 0 THEN rest ELSE SubSeq(rest, 1, end - 1)

\* configuration b of the OV580 holds its calibration: a sentinel "\n\n{" at
\* an offset of 40 or more, UTF-8 after it, and a document that parses
LightCalibration(b) ==
    \E i \in 40..(Len(b) - 3) :
       /\ SubSeq(b, i + 1, i + 3) = <<10, 10, 123>>
       /\ Utf8(SubSeq(b, i + 3, Len(b)))
       /\ JsonParse(DocumentAt(b, i)) # "error"

\* configuration b of the HID family's sensor device holds its calibration
AirCalibration(b) == Utf8(b) /\ JsonParse(b) # "error"

\* the configuration the device holds, or as much of it as the HID family's
\* device can send for the length it announces, is a calibration
Calibration(b) ==
    IF family = "light" THEN LightCalibration(b)
    ELSE \E n \in Min(announced, Len(b))..Len(b) : AirCalibration(SubSeq(b, 1, n))

\* the calibration load has returned without an error
Loaded == "parse" \in Range(steps)

\* a session is returned only after every step, in order; the thread is
\* started by the last step; a step's error is what new() returns
C18_InOrder ==
    /\ nret = Session => steps = AllSteps
    /\ \E n \in 0..Len(AllSteps) : steps = SubSeq(AllSteps, 1, n)
    /\ (tpc # "none" \/ strong # 1) => (family = "light" /\ steps = AllSteps)
    /\ npc = "failed" => (nret.kind = "err" /\ tpc = "none" /\ strong = 1)
    /\ npc = "aborted" => (nret = None /\ tpc = "none" /\ strong = 1)
    /\ (family = "light" /\ nret = Session) => arrived >= 3
    /\ (family = "air" /\ nret = Session) => arrived >= 1

\* C18: new() returns a session only after the handshake commands and the
\* sensor device's calibration load have all succeeded, in that order (the
\* HID family: calibration load, then the serial check); if a step fails,
\* new() returns the error, there is no session and the thread is never
\* started.
C18_AllOrNothing ==
    /\ C18_InOrder
    /\ nret = Session => Calibration(blob)

\* C19: (OV580) when the configuration holds no sentinel "\n\n{" at an offset
\* of 40 or more, or the text after it is no JSON or not UTF-8, the
\* calibration load fails and new() fails: no session with zero biases.
C19_MalformedFatal ==
    family = "light" =>
       /\ Loaded => LightCalibration(blob)
       /\ nret = Session => (LightCalibration(blob) /\ biases = "set")

\* what of C19 the code keeps: text that is no JSON, and bytes that are not
\* UTF-8 after a sentinel the loop finds, end the load with an error
C19_FoundAndBad ==
    (family = "light" /\ Loaded)
    => \A i \in 40..(Len(blob) - 5) :
          SubSeq(blob, i + 1, i + 3) = <<10, 10, 123>>
          => /\ Utf8(SubSeq(blob, i + 3, Len(blob)))
             /\ JsonParse(DocumentAt(blob, i)) # "error"

ConfigCommand(c) == c.cmd \in {20, 21}

\* every configuration command reached the device with its stream off, after
\* a stream-disable command and before any stream-enable command
C20_NoConfigWhileStreaming ==
    \A i \in 1..Len(sensorLog) :
       ConfigCommand(sensorLog[i])
       => /\ sensorLog[i].stream = FALSE
          /\ \E j \in 1..(i - 1) : sensorLog[j].cmd = 25 /\ sensorLog[j].sub = 0
          /\ \A j \in 1..(i - 1) : ~(sensorLog[j].cmd = 25 /\ sensorLog[j].sub = 1)
          /\ "off" \in Range(steps)

\* on a successful creation the device got: stream off, the start of the
\* configuration, its chunks, stream on; and it streams
C20_Bracketed ==
    nret = Session
    => /\ Len(sensorLog) >= 4
       /\ sensorLog[1].cmd = 25 /\ sensorLog[1].sub = 0
       /\ sensorLog[2].cmd = 20
       /\ \A i \in 3..(Len(sensorLog) - 1) : sensorLog[i].cmd = 21
       /\ sensorLog[Len(sensorLog)].cmd = 25 /\ sensorLog[Len(sensorLog)].sub = 1
       /\ stream = TRUE

\* C20: in both families, on every successful creation the stream-disable
\* command is sent and acknowledged before the first configuration command,
\* the stream-enable command is sent after the last configuration chunk
\* command and before the session is returned, and no configuration command
\* is sent while the stream is enabled.
C20_TelemetryGating == C20_NoConfigWhileStreaming /\ C20_Bracketed

\* NrealLight::new has returned a session, the OV580 streaming before it, its
\* configuration read in two chunks
C20_Witness ==
    /\ family = "light"
    /\ nret = Session
    /\ Len(sensorLog) = 6
    /\ sensorLog[1].stream = TRUE
    /\ biases = "set"

-----------------------------------------------------------------------------
(* C21: the control part of the HID family's read_event *)

\* the step of read_event that is read_mcu_packet
McuStep == family = "air" /\ pc = "mcu"

\* that step takes a frame: the head of the queue, or else the frame one
\* transfer delivers
McuTakes == Len(pending) > 0 \/ lastRead' = "frame"

\* the frame it takes, as the device sent it
McuTaken == IF Len(pending) > 0 THEN pending[1] ELSE Last(got')

\* one frame at most: the head leaves the queue and the channel is not read, or
\* the queue is empty and stays so and the channel is read once
C21_OneFrame ==
    McuStep =>
        /\ lastTaken' = IF McuTakes THEN McuTaken.seq ELSE lastTaken
        /\ IF Len(pending) > 0
           THEN pending' = Tail(pending) /\ arrived' = arrived /\ didRead' = didRead
           ELSE /\ pending' = pending
                /\ didRead'
                /\ arrived' = IF lastRead' = "frame" THEN arrived + 1 ELSE arrived

\* the call goes on to the sensor channel, nothing returned
FallsThrough == pc' = "imu" /\ ret' = None

\* the call returns KeyPress(b)
ReturnsKey(b) == pc' = "idle" /\ ret'.kind = "event" /\ ret'.ev = "KeyPress" /\ ret'.arg = b

\* no frame (a transfer of 0 bytes) and a frame of another id than the key's
\* fall through alike
C21_Discards ==
    McuStep =>
        /\ (~McuTakes /\ lastRead' = "timeout") => FallsThrough
        /\ (McuTakes /\ McuTaken.pkt.cmd_id # MCU_KEY_ID) => FallsThrough

\* a key frame is returned as KeyPress(payload[0] - 1)
C21_Keys ==
    (McuStep /\ McuTakes /\ McuTaken.pkt.cmd_id = MCU_KEY_ID) =>
        /\ pc' = "idle"
        /\ Len(McuTaken.pkt.data) > 0
        /\ ReturnsKey(McuTaken.pkt.data[1] - 1)

\* a key frame whose payload starts with a byte of 1 or more is returned so
C21_PressedKeys ==
    (/\ McuStep /\ McuTakes /\ McuTaken.pkt.cmd_id = MCU_KEY_ID
     /\ Len(McuTaken.pkt.data) > 0
     /\ McuTaken.pkt.data[1] >= 1) =>
        ReturnsKey(McuTaken.pkt.data[1] - 1)

\* the sensor part never touches the control channel or the queue
C21_SensorPartApart ==
    (family = "air" /\ pc = "imu") =>
        pending' = pending /\ arrived' = arrived /\ lastTaken' = lastTaken

\* C21: each read_event call of the HID family consumes one control-channel
\* frame at most (the head of the PendingQueue, or else one non-blocking read);
\* a frame with the key id makes the call return KeyPress(payload[0] - 1); a
\* frame with any other id is discarded and the call falls through to the sensor
\* channel as when there is no frame.
C21_Control ==
    [][C21_OneFrame /\ C21_SensorPartApart /\ C21_Discards /\ C21_Keys]_vars

\* the claim but for key frames with an empty payload or a payload starting
\* with 0
C21_ControlPressed ==
    [][C21_OneFrame /\ C21_SensorPartApart /\ C21_Discards /\ C21_PressedKeys]_vars

-----------------------------------------------------------------------------
(* C22: the sensor part of the HID family's read_event *)

\* a step of read_event on the sensor channel
ImuStep == family = "air" /\ pc = "imu"

\* the call returns the motion event of the report just delivered
ReturnsMotion ==
    /\ pc' = "idle"
    /\ ret' = Event("AccGyro", reports')
    /\ reports' = reports + 1
    /\ motions' = motions + 1

\* the call returns the error e
ReturnsErr(e) == pc' = "idle" /\ ret' = Err(e) /\ reports' = reports /\ motions' = motions

\* the report the device sent is a motion report of the HID family: it starts
\* with the bytes 1, 2
MotionReport(o) == o.kind = "report" /\ o.b0 = 1 /\ o.b1 = 2

\* C22 as the specification has it: the sensor part is one read of the sensor
\* channel, after which read_event returns, with a motion event or with an error
\* (the timeout's, or the transport's).
C22_SingleRead ==
    [][ImuStep => (pc' = "idle" /\ imuReads' = 1 /\ ret'.kind \in {"event", "err"})]_vars

\* each read counts, and ends the call or not by what the device delivered
C22_EachRead ==
    ImuStep =>
        /\ imuReads' = imuReads + 1
        /\ CASE lastSensor'.kind = "timeout" -> ReturnsErr("packet_timeout")
             [] lastSensor'.kind = "io" -> ReturnsErr("io")
             [] MotionReport(lastSensor') -> ReturnsMotion
             [] OTHER -> pc' = "imu" /\ ret' = None /\ reports' = reports
                         /\ motions' = motions

\* the sensor channel is read only in the sensor part of a call
C22_OnlyThere == imuReads' # imuReads => (ImuStep \/ (pc = "idle" /\ imuReads' = 0))

\* C22: when no control-channel event is available, read_event reads the sensor
\* channel with the fixed timeout until a read delivers something else than a
\* report without the marker bytes 1, 2: such reports are skipped and the
\* channel is read again; the call returns at the first other read, with the
\* motion event decoded from that report, with the timeout error on a read of
\* no data, or with the transport's error.
C22_ReadsUntil == [][C22_EachRead /\ C22_OnlyThere]_vars

\* read_event has returned the motion event of the second report it read, the
\* first having been skipped
C22_Witness ==
    /\ family = "air"
    /\ pc = "idle"
    /\ imuReads = 2
    /\ MotionReport(lastSensor)
    /\ ret.kind = "event"
    /\ ret.ev = "AccGyro"

-----------------------------------------------------------------------------
(* C23: the binary codecs' deserialize on any buffer *)

\* deserialize has run on a buffer of the device
Decoded == cin # Unset /\ cin.codec \in {"mcu", "imu"} /\ cout # Unset

HeadOf(codec) == IF codec = "mcu" THEN MCU_HEAD ELSE IMU_HEAD

OverheadOf(codec) == IF codec = "mcu" THEN MCU_OVERHEAD ELSE IMU_OVERHEAD

\* the first n bytes of the payload area, as far as there are any
FirstOfArea(area, n) == SubSeq(area, 1, IF n < 0 THEN 0 ELSE Min(n, Len(area)))

\* no frame on a wrong head tag
C23_HeadChecked == (Decoded /\ cin.head # HeadOf(cin.codec)) => cout = None

\* the frame: the buffer's command id and the first (length - overhead) bytes
\* of the payload area
C23_Truncated ==
    (Decoded /\ cin.head = HeadOf(cin.codec) /\ cout.kind = "some") =>
        /\ cout.val.cmd_id = cin.cmd_id
        /\ cout.val.data = FirstOfArea(cin.area, cin.length - OverheadOf(cin.codec))

\* C23: for every 64-byte buffer, deserialize returns no frame when the head
\* tag mismatches and otherwise a frame whose payload is the first
\* (length - overhead) bytes of the payload area; whatever the length field, it
\* never aborts.
C23_DecodeTotal ==
    /\ C23_HeadChecked
    /\ C23_Truncated
    /\ (Decoded /\ cin.head = HeadOf(cin.codec)) => cout.kind = "some"

\* the claim for the length fields from the overhead to the overhead plus the
\* payload area's size; deserialize aborts on every other one
C23_DecodeInRange ==
    /\ C23_HeadChecked
    /\ C23_Truncated
    /\ (Decoded /\ cin.head = HeadOf(cin.codec)) =>
          IF cin.length - OverheadOf(cin.codec) \in 0..Len(cin.area)
          THEN cout.kind = "some"
          ELSE cout = Aborted

-----------------------------------------------------------------------------
(* C24: the chunk loop of ImuDevice::read_config *)

\* read_config of the HID family is at its loop: a 0x15 command is written next
AtChunkLoop == family = "air" /\ npc = "cfg_chunk"

\* a chunk command is sent only while fewer bytes than announced are there
C24_OnlyBelow == AtChunkLoop => Len(config) < announced

\* the loop is left as soon as the announced length is there: with the answer
\* to 0x14 when it announces nothing, and else with the chunk that reaches it
C24_StopsAtLength ==
    /\ (family = "air" /\ npc = "cfg_start" /\ npc' = "cfg_chunk") => announced > 0
    /\ (family = "air" /\ npc = "cfg_start" /\ npc' = "parse") => announced = 0
    /\ (AtChunkLoop /\ npc' = "cfg_chunk" /\ config' # config) => Len(config') < announced
    /\ (AtChunkLoop /\ npc' = "parse") =>
          (Len(config') >= announced /\ Len(config) < announced)

\* the device has its configuration's bytes for every chunk asked of it
EveryChunkCarries == announced <= Len(blob)

\* with a byte or more in every chunk, no more chunk commands than bytes announced
C24_AtMostLength == (family = "air" /\ EveryChunkCarries) => ChunkCommands <= announced

\* what is parsed is all that was read, and all that the device sent
C24_WholeParsed ==
    (family = "air" /\ npc = "parse") =>
        /\ \E n \in 0..Len(blob) : config = SubSeq(blob, 1, n)
        /\ IF AirCalibration(config)
           THEN npc' \in {"on", "aborted"}
           ELSE npc' = "failed" /\ nret'.kind = "err"

\* C24: after 0x14 has announced the length L, the HID family's read_config
\* sends a 0x15 only while it has fewer than L bytes and stops as soon as it
\* has L or more; when every chunk carries a byte or more it sends L chunk
\* commands at most; and it parses all the bytes it has read, not the first L.
C24_ChunkLoop ==
    /\ [][C24_StopsAtLength /\ C24_WholeParsed]_vars
    /\ [](C24_OnlyBelow /\ C24_AtMostLength)

\* the device announced 3 bytes and sent the 4 of "{G}x" in one chunk: the
\* load has failed on the fourth
C24_Witness ==
    /\ family = "air"
    /\ blob = <<123, 71, 125, 120>>
    /\ announced = 3
    /\ ChunkCommands = 1
    /\ npc = "failed"
    /\ nret = Err("JSON parse error")

-----------------------------------------------------------------------------
(* C25: run_command loses no frame *)

\* run_command has returned a frame's payload
Answered == ret.kind = "ok"

\* the frames of this call that were not returned
NotReturned == IF Answered THEN Front(got) ELSE got

\* during a run_command call and after it, the queue is what it was at the
\* call, then every frame read by the call but the returned one, as sent and
\* in the order of arrival; the returned payload is the last frame's
C25_Kept ==
    command # None =>
        /\ pending = queue0 \o NotReturned
        /\ Answered => (Len(got) > 0 /\ ret.data = Last(got).pkt.data)

\* the same when run_command has failed: by exhaustion, the 64 frames queued,
\* or by an error of a read
C25_KeptOnFailure ==
    (command # None /\ pc = "idle" /\ ret.kind = "err") =>
        /\ Len(pending) = Len(queue0) + Len(got)
        /\ ret = Err("unrelated") => Len(got) = 64
        /\ \A i \in 1..Len(got) : pending[Len(queue0) + i] = got[i]

\* the queue changes by one frame at a time: run_command appends the frame just
\* read, event polling pops the head
C25_OneByOne ==
    pending' # pending =>
        \/ /\ pc = "cmd"
           /\ pending' = Append(pending, Last(got'))
        \/ /\ pc \in {"ev_drain", "mcu"}
           /\ Len(pending) > 0
           /\ pending' = Tail(pending)
           /\ lastTaken' = Head(pending).seq

\* C25: every well-formed frame run_command reads from the control channel is,
\* when run_command returns, the returned result or in the PendingQueue, in
\* arrival order, also when run_command fails by exhaustion (the 64 frames stay
\* queued) or by a read error after some frames; frames leave the queue only
\* popped, one per pop, by event polling.
C25_Conservation == [](C25_Kept /\ C25_KeptOnFailure) /\ [][C25_OneByOne]_vars

\* run_command failed by exhaustion, and read_event has popped the first of
\* its 64 frames since
C25_Witness ==
    /\ command = None
    /\ arrived = 64
    /\ lastTaken = 1
    /\ Len(pending) = 63
    /\ pending[1].seq = 2
    /\ pending[63].seq = 64

-----------------------------------------------------------------------------
(* C26: the motion events of NrealLight::read_event *)

\* read_event returns a motion event
MotionReturned == family = "light" /\ motions' # motions

\* the motion events are returned in the order of the reports and none twice:
\* each is a report that the device sent and that is later than the last one
\* returned
C26_InOrder ==
    /\ MotionReturned =>
          /\ motions' = motions + 1
          /\ ret' = Event("AccGyro", lastMotion')
          /\ lastMotion' > lastMotion
          /\ lastMotion' <= reports
    /\ (family = "light" /\ ret' # ret /\ ret'.kind = "event" /\ ret'.ev = "AccGyro")
       => MotionReturned
    /\ (family = "light" /\ lastMotion' # lastMotion) => MotionReturned

\* the slot gets a value only from the thread, decoding a motion report (first
\* byte 1) the device has just sent; any other transfer leaves it
C26_MarkerOnly ==
    /\ (family = "light" /\ slot' # slot /\ slot'.kind = "some")
       => (tpc = "read" /\ reports' = reports + 1 /\ slot' = Some(reports'))
    /\ (family = "light" /\ tpc = "read" /\ tpc' # "read" /\ reports' = reports)
       => slot' = slot

\* what has been returned and what is in the slot are reports the device sent
C26_Sent ==
    family = "light" =>
       /\ lastMotion <= reports
       /\ motions <= reports
       /\ slot.kind = "some" => (slot.val <= reports /\ slot.val > lastMotion)

\* C26: (text family) under every interleaving of the thread's slot writes and
\* the session's polls, the motion events read_event returns are a subsequence
\* of the reports the thread decoded, in their order and none twice; a report
\* whose first byte is not 1 never changes the slot.
C26_MotionDelivery == []C26_Sent /\ [][C26_InOrder /\ C26_MarkerOnly]_vars

\* read_event has returned the first report, and then the second
C26_Witness ==
    /\ family = "light"
    /\ pc = "idle"
    /\ ret = Event("AccGyro", 2)
    /\ lastMotion = 2
    /\ motions = 2

-----------------------------------------------------------------------------
(* C27: the heartbeat comes before the events *)

\* a read_event call of the text family is under way or has just returned
LightPolling == family = "light" /\ command = None

\* a call that began with the heartbeat due returns no event, motion events
\* from the slot included, and consumes nothing before it has written the
\* heartbeat
C27_BeatFirst ==
    (LightPolling /\ calledDue) =>
        /\ (ret.kind = "event" \/ pc \in {"ev_slot", "ev_alive", "ev_drain"}) => writes >= 1
        /\ writes = 0 => (pending = queue0 /\ ~didRead)

\* such a call writes the heartbeat at its first step, whatever is in the slot
\* and in the queue
C27_AtOnce ==
    (LightPolling /\ calledDue /\ pc = "ev_hb" /\ writes = 0 /\ pc' # pc)
    => /\ writes' = 1
       /\ lastWrite' \in WriteOutcomes
       /\ slot' = slot
       /\ pending' = pending

\* a failed heartbeat write ends read_event with the write's error: the slot
\* and the queue are as they were, no frame is consumed, last_heartbeat is not
\* updated
C27_FailedWrite ==
    (family = "light" /\ pc = "ev_hb" /\ writes' = writes + 1 /\ lastWrite' # "ok")
    => /\ pc' = "idle"
       /\ ret' = Err(lastWrite')
       /\ slot' = slot
       /\ pending' = pending
       /\ lastTaken' = lastTaken
       /\ motions' = motions
       /\ arrived' = arrived
       /\ last_heartbeat' = last_heartbeat
       /\ beatAt' = beatAt

\* C27: (text family) in every read_event call that begins more than 250 ms
\* after the last recorded heartbeat, the heartbeat frame is written before any
\* event is returned, a motion event from the slot included; a failed heartbeat
\* write makes read_event return the error without consuming the slot value or
\* a pending frame and without updating the last-heartbeat time.
C27_NotStarved == []C27_BeatFirst /\ [][C27_AtOnce /\ C27_FailedWrite]_vars

\* a call that began with the heartbeat due, the slot full and a frame
\* pending has written the heartbeat and returned the motion event
C27_Witness ==
    /\ LightPolling
    /\ calledDue
    /\ pc = "idle"
    /\ writes = 1
    /\ lastWrite = "ok"
    /\ ret.kind = "event"
    /\ ret.ev = "AccGyro"
    /\ Len(pending) >= 1

-----------------------------------------------------------------------------
(* C28: the text codec's serialize and frames that do not fit *)

\* the bytes of the whole frame of packet p: 6 of header, the payload, ":0:",
\* 8 of checksum, ':' and ETX
FrameLength(p) == 6 + Len(p.data) + 3 + 8 + 2

\* the buffer holds a whole frame: its closing ':' and ETX are where the frame
\* ends
Closed(buf, p) ==
    /\ FrameLength(p) <= BUF_LEN
    /\ buf[FrameLength(p) - 1] = COLON
    /\ buf[FrameLength(p)] = ETX

\* C28: the text family's serialize returns a buffer only when the whole
\* frame, checksum field and closing ':' and ETX included, fits the 64 bytes,
\* and fails for every payload of more than 45 bytes; so a buffer it returns
\* deserializes back to the frame that was sent.
C28_NeverTruncated ==
    Serialized("text") =>
        /\ cwire.kind = "some" <=> Len(cin.pkt.data) <= 45
        /\ cwire.kind = "some" => Closed(cwire.val, cin.pkt)
        /\ (cwire.kind = "some" /\ PlainText(cin.pkt) /\ cout # Unset) => RoundTrip

\* what holds: serialize fails when the checksum field does not fit, which is
\* for payloads of more than 47 bytes; the buffers for 46 and 47 bytes lack
\* the ETX and do not deserialize
C28_ChecksumFits ==
    Serialized("text") =>
        /\ cwire.kind = "some" <=> Len(cin.pkt.data) <= 47
        /\ cwire.kind = "some" => (Closed(cwire.val, cin.pkt) <=> Len(cin.pkt.data) <= 45)
        /\ (Len(cin.pkt.data) \in {46, 47} /\ PlainText(cin.pkt) /\ cout # Unset)
           => cout = None
        /\ (Len(cin.pkt.data) <= 45 /\ PlainText(cin.pkt) /\ cout # Unset) => RoundTrip

-----------------------------------------------------------------------------
(* C29: the display mode set and read back (HID family) *)

\* the glasses hold the byte of the mode they stored last
C29_Stored == asked # None => panel = DisplayModeByte(asked.val)

\* get_display_mode has just returned a mode, the glasses having stored one
ReadBack == dret # None /\ dret.call = "get" /\ dret.kind = "ok" /\ asked # None

\* C29: for every display mode m that set_display_mode accepts, glasses that
\* stored the byte set_display_mode sent for m report m on the next
\* get_display_mode.
C29_RoundTrip == ReadBack => dret.mode = asked.val

\* what holds: every mode but HighRefreshRateSBS comes back; its byte, 9, is
\* read as HighRefreshRate
C29_RoundTripButSBS ==
    /\ C29_Stored
    /\ ReadBack =>
         IF asked.val = "HighRefreshRateSBS" THEN dret.mode = "HighRefreshRate"
         ELSE dret.mode = asked.val

-----------------------------------------------------------------------------
(* C30: the signs and axes of the normalized samples *)

\* the driver has made the samples of the report
Normalized(f) == report # Unset /\ report.family = f /\ sample # Unset

\* the raw reading r scaled, on axis i
Raw(r, scale, i) == (r[i] * scale[1]) \div scale[2]

\* the text family's table: (+raw_x - bias_x, -raw_y + bias_y, -raw_z + bias_z)
TextTable(s, r, scale, bias) ==
    /\ s.x = Raw(r, scale, 1) - bias[1]
    /\ s.y = -Raw(r, scale, 2) + bias[2]
    /\ s.z = -Raw(r, scale, 3) + bias[3]

\* the HID family's table: (-raw_x - bias_x, +raw_z + bias_y, +raw_y + bias_z)
HidTable(s, r, scale, bias) ==
    /\ s[1] = -Raw(r, scale, 1) - bias[1]
    /\ s[2] = Raw(r, scale, 3) + bias[2]
    /\ s[3] = Raw(r, scale, 2) + bias[3]

\* the text family: one pair of samples, both by the text family's table, each
\* with its tick counter divided by 1000
C30_Text ==
    Normalized("light") =>
        /\ sample.kind = "some"
        /\ DOMAIN sample.val = {"acc", "gyro"}
        /\ TextTable(sample.val.acc, report.acc, report.acc_scale, report.accel_bias)
        /\ TextTable(sample.val.gyro, report.gyro, report.gyro_scale, report.gyro_bias)
        /\ sample.val.gyro.timestamp * 1000 <= report.ticks
        /\ report.ticks < (sample.val.gyro.timestamp + 1) * 1000
        /\ sample.val.acc.timestamp * 1000 <= report.acc_ticks
        /\ report.acc_ticks < (sample.val.acc.timestamp + 1) * 1000

\* the HID family: one event with one sample of each sensor, both by the HID
\* family's table, and the tick counter divided by 1000
C30_Hid ==
    Normalized("air") =>
        /\ sample.kind = "event"
        /\ sample.ev = "AccGyro"
        /\ HidTable(sample.arg.accelerometer, report.acc, report.acc_scale, report.accel_bias)
        /\ HidTable(sample.arg.gyroscope, report.gyro, report.gyro_scale, report.gyro_bias)
        /\ sample.arg.timestamp * 1000 <= report.ticks
        /\ report.ticks < (sample.arg.timestamp + 1) * 1000

\* C30: each raw report yields one accelerometer and one gyroscope sample as a
\* pair; with the scaling factored out the text family outputs
\* (+raw_x - bias_x, -raw_y + bias_y, -raw_z + bias_z) and the HID family
\* (-raw_x - bias_x, +raw_z + bias_y, +raw_y + bias_z), the same for both
\* sensors; the timestamp is the tick counter integer-divided by 1000.
C30_SignTable == C30_Text /\ C30_Hid

\* the HID family has normalized a report whose y and z differ on both
\* sensors, with biases set and a tick counter that is no multiple of 1000
C30_Witness ==
    /\ Normalized("air")
    /\ report.gyro[2] # report.gyro[3]
    /\ report.acc[2] # report.acc[3]
    /\ report.gyro_bias # <<0, 0, 0>>
    /\ report.accel_bias # <<0, 0, 0>>
    /\ report.gyro_scale = <<2, 1>>
    /\ report.ticks = 1999
    /\ sample.arg.timestamp = 1

\* the text family has normalized a report with its two tick counters apart
C30_WitnessText ==
    /\ Normalized("light")
    /\ report.acc_ticks # report.ticks
    /\ report.accel_bias # <<0, 0, 0>>
    /\ sample.val.acc.timestamp # sample.val.gyro.timestamp

=============================================================================
